---------------------------- MODULE Spec2Model ----------------------------
(***************************************************************************)
(* A model of the streaming gateway of src/main.py: the credential store   *)
(* (CredentialManager), the refresh coordination (refresh_lock, the two    *)
(* asyncio events, request_token_refresh), the per-call state machine of   *)
(* VertexAIClient.stream_chat with its bounded retry loop, and the         *)
(* incremental parser of the array-framed upstream stream.                 *)
(*                                                                         *)
(* The program runs as cooperative asyncio tasks.  A step of the model is  *)
(* the code a task runs between two suspension points (await / yield), so  *)
(* every action is written as a function from the state record S to the   *)
(* next state and applied atomically.                                      *)
(***************************************************************************)
EXTENDS Integers, Sequences, FiniteSets, TLC

(***************************************************************************)
(* Bounds of the model.                                                    *)
(***************************************************************************)
MaxCalls == 2
MaxClients == 1
MaxUpdates == 1
MaxDeltas == 1

(***************************************************************************)
(* Program constants.                                                      *)
(***************************************************************************)
max_retries == 1
PreflightTimeout == 60
StatusRetryTimeout == 45
AuthRetryTimeout == 60
UiTimeout == 60

Calls == 1..MaxCalls
WsClients == 1..MaxClients
NoCall == 0

Statuses == {200, 400, 401, 403, 500}
AuthStatuses == {400, 401, 403}

VARIABLES
    latest_harvest,          \* CredentialManager.latest_harvest
    last_updated,            \* CredentialManager.last_updated, a logical stamp
    stale,                   \* time.time() - last_updated > 3000
    refresh_event,           \* asyncio.Event: credential available
    refresh_complete_event,  \* asyncio.Event: harvester UI settled
    lock_holder,             \* refresh_lock: the call holding it, or NoCall
    lock_waiters,            \* refresh_lock: FIFO queue of blocked calls
    woken,                   \* calls whose Event.wait() future has been resolved
    harvester_clients,       \* the connected WebSocket harvesters
    harvester_running,       \* the cloud harvester exists and is_running;
                             \* cloud_harvester.py does not compile (line
                             \* 181), so main() never constructs one
    harvest_tasks,           \* a perform_harvest task was spawned and still runs
    pc,                      \* where each call of stream_chat is suspended
    attempt,                 \* the retry loop's attempt of each call
    timeout,                 \* the timeout of the wait a call is blocked in
    req_cred,                \* the credential the current request was built from
    content_yielded,         \* stream_chat's content_yielded flag
    deltas,                  \* deltas the upstream has produced in this attempt
    events,                  \* the events each call has yielded to its caller
    requests,                \* upstream requests each call has issued
    pre_bcasts,              \* pre-flight request_token_refresh calls per call
    fail_bcasts,             \* failure-triggered request_token_refresh calls
    failures,                \* history: how the attempts of each call failed
    queued_behind,           \* history: the lock's holder when the call queued
    layout,                  \* parser: the items the upstream is going to send
    stream,                  \* parser: the upstream's whole character sequence
    fed,                     \* parser: how many characters have arrived
    buffer,                  \* parser: stream_chat's buffer
    decoded,                 \* parser: the objects handed to process_google_response
    stream_open,             \* parser: response.aiter_text() has not ended
    unit_pc,                 \* which function applied on its own has run
    google_data,             \* translator: the object given to process_google_response
    sse,                     \* translator: what the generator yielded and how it ended
    chat_events,             \* aggregate: the events stream_chat yields to complete_chat
    response_data,           \* aggregate: what chat_completions answers, stream=false
    chat_request,            \* builder: the model and max_tokens of the call
    sent,                    \* builder: the request handed to client.stream(...)
    credentials_file,        \* store: the content of credentials.json
    signalled,               \* wait: the calls whose signal was set since they
                             \* cleared it
    broadcast_queue,         \* broadcast: the clients the loop has still to visit
    registered,              \* broadcast: the collaborators when the call began
    refresh_sent,            \* broadcast: the collaborators asked to refresh
    answered                 \* refresh: the calls whose message a delivery followed

vars == <<latest_harvest, last_updated, stale, refresh_event,
          refresh_complete_event, lock_holder, lock_waiters, woken,
          harvester_clients, harvester_running, harvest_tasks,
          pc, attempt, timeout, req_cred, content_yielded,
          deltas, events, requests, pre_bcasts, fail_bcasts, failures,
          queued_behind, layout, stream, fed, buffer, decoded, stream_open,
          unit_pc, google_data, sse, chat_events, response_data,
          chat_request, sent, credentials_file,
          signalled, broadcast_queue, registered, refresh_sent, answered>>

gatewayVars == <<latest_harvest, last_updated, stale, refresh_event,
          refresh_complete_event, lock_holder, lock_waiters, woken,
          harvester_clients, harvester_running, harvest_tasks,
          pc, attempt, timeout, req_cred, content_yielded,
          deltas, events, requests, pre_bcasts, fail_bcasts, failures,
          queued_behind>>

parserVars == <<layout, stream, fed, buffer, decoded, stream_open>>

\* The variables of the functions that are applied on their own.
unitVars == <<unit_pc, google_data, sse, chat_events, response_data,
              chat_request, sent, credentials_file,
              signalled, broadcast_queue, registered, refresh_sent,
              answered>>

\* The variables of the refresh primitives that are applied on their own.
coordVars ==
    <<signalled, broadcast_queue, registered, refresh_sent, answered>>

\* The gateway's variables other than the stored credential.
callVars == <<stale, refresh_event, refresh_complete_event, lock_holder,
              lock_waiters, woken, harvester_clients, harvester_running,
              harvest_tasks, pc, attempt, timeout, req_cred, content_yielded,
              deltas, events, requests, pre_bcasts, fail_bcasts, failures,
              queued_behind>>

(***************************************************************************)
(* The gateway's state as one record, and its application as a step.       *)
(***************************************************************************)
S ==
    [latest_harvest |-> latest_harvest, last_updated |-> last_updated,
     stale |-> stale, refresh_event |-> refresh_event,
     refresh_complete_event |-> refresh_complete_event,
     lock_holder |-> lock_holder, lock_waiters |-> lock_waiters,
     woken |-> woken, harvester_clients |-> harvester_clients,
     harvester_running |-> harvester_running,
     harvest_tasks |-> harvest_tasks, pc |-> pc, attempt |-> attempt,
     timeout |-> timeout, req_cred |-> req_cred,
     content_yielded |-> content_yielded, deltas |-> deltas,
     events |-> events, requests |-> requests, pre_bcasts |-> pre_bcasts,
     fail_bcasts |-> fail_bcasts, failures |-> failures,
     queued_behind |-> queued_behind]

Apply(s) ==
    /\ latest_harvest' = s.latest_harvest
    /\ last_updated' = s.last_updated
    /\ stale' = s.stale
    /\ refresh_event' = s.refresh_event
    /\ refresh_complete_event' = s.refresh_complete_event
    /\ lock_holder' = s.lock_holder
    /\ lock_waiters' = s.lock_waiters
    /\ woken' = s.woken
    /\ harvester_clients' = s.harvester_clients
    /\ harvester_running' = s.harvester_running
    /\ harvest_tasks' = s.harvest_tasks
    /\ pc' = s.pc
    /\ attempt' = s.attempt
    /\ timeout' = s.timeout
    /\ req_cred' = s.req_cred
    /\ content_yielded' = s.content_yielded
    /\ deltas' = s.deltas
    /\ events' = s.events
    /\ requests' = s.requests
    /\ pre_bcasts' = s.pre_bcasts
    /\ fail_bcasts' = s.fail_bcasts
    /\ failures' = s.failures
    /\ queued_behind' = s.queued_behind
    /\ UNCHANGED parserVars
    /\ UNCHANGED unitVars


(***************************************************************************)
(* Credentials.  A harvest is the captured request; url and reauth stand   *)
(* for the url and the X-Goog-First-Party-Reauth header, numbered by the   *)
(* stamp of the update that produced them.                                 *)
(***************************************************************************)
NoHarvest == [present |-> FALSE, url |-> 0, reauth |-> 0]

Harvest(n) == [present |-> TRUE, url |-> n, reauth |-> 0]

NoEvents == <<>>

\* An event yielded to the caller: a translated delta, the guidance message of
\* line 280, an error payload with its type, or the [DONE] sentinel; attempt
\* is the attempt of the retry loop that yielded it.
Event(kind, type, att) ==
    [kind |-> kind, type |-> type, attempt |-> att]

DoneEvent == Event("DONE", "", 0)

\* How an attempt failed: an upstream status other than 200, an in-band
\* AuthError, or any other exception.
StatusFailure == "status"
AuthErrorFailure == "AuthError"
ExceptionFailure == "Exception"

CredWaitPcs == {"pre_wait", "r401_wait", "auth_wait"}
UiWaitPcs == {"auth_ui_wait"}

(***************************************************************************)
(* CredentialManager.                                                      *)
(***************************************************************************)
\* asyncio.Event.set() on refresh_event: every future waiting on it resolves.
set_refresh_event(s) ==
    [s EXCEPT !.refresh_event = TRUE,
              !.woken = @ \cup {c \in Calls : s.pc[c] \in CredWaitPcs}]

\* asyncio.Event.set() on refresh_complete_event.
set_refresh_complete_event(s) ==
    [s EXCEPT !.refresh_complete_event = TRUE,
              !.woken = @ \cup {c \in Calls : s.pc[c] \in UiWaitPcs}]

updateNoSet(s, data) ==
    [s EXCEPT !.latest_harvest = data,
              !.last_updated = @ + 1,
              !.stale = FALSE]

update(s, data) ==
    set_refresh_event(
        [s EXCEPT !.latest_harvest = data,
                  !.last_updated = @ + 1,
                  !.stale = FALSE])

update_token(s, token) ==
    IF s.latest_harvest.present
    THEN set_refresh_event(
             [s EXCEPT !.latest_harvest.reauth = token,
                       !.last_updated = @ + 1,
                       !.stale = FALSE])
    ELSE s

get_credentials(s) == s.latest_harvest

wait_for_refreshNoTimeout(s, c, waitpc, t) ==
    [s EXCEPT !.refresh_event = FALSE,
              !.refresh_complete_event = FALSE,
              !.woken = @ \ {c},
              !.timeout[c] = 0,
              !.pc[c] = waitpc]

\* The first half of wait_for_refresh: both events are cleared and the call
\* blocks in asyncio.wait_for(refresh_event.wait(), timeout).
wait_for_refresh(s, c, waitpc, t) ==
    [s EXCEPT !.refresh_event = FALSE,
              !.refresh_complete_event = FALSE,
              !.woken = @ \ {c},
              !.timeout[c] = t,
              !.pc[c] = waitpc]

\* wait_for_refresh's except branch: the wait timed out.
wait_for_refresh_timed_out(s, c) ==
    [set_refresh_complete_event(s) EXCEPT !.timeout[c] = 0, !.woken = @ \ {c}]

\* wait_for_refresh's try branch: the wait returned.
wait_for_refresh_returned(s, c) ==
    [s EXCEPT !.timeout[c] = 0, !.woken = @ \ {c}]

(***************************************************************************)
(* request_token_refresh.  failed are the clients whose send_text raises.  *)
(***************************************************************************)
request_token_refresh(s, failed) ==
    IF s.harvester_running
    THEN [s EXCEPT !.harvest_tasks = TRUE]
    ELSE IF s.harvester_clients = {}
    THEN s
    ELSE [s EXCEPT !.harvester_clients = @ \ failed]

\* request_token_refresh suspends only in "await ws.send_text(message)".
Suspends(s) == ~s.harvester_running /\ s.harvester_clients # {}

Failures(s) ==
    IF Suspends(s) THEN SUBSET s.harvester_clients ELSE {{}}


(***************************************************************************)
(* VertexAIClient.stream_chat, as functions of the state.                  *)
(***************************************************************************)
goto(s, c, p) == [s EXCEPT !.pc[c] = p]

failed_with(s, c, f) == [s EXCEPT !.failures[c] = Append(@, f)]

yield(s, c, ev) == [s EXCEPT !.events[c] = Append(@, ev)]

\* "return" of the generator: its locals are gone.
return(s, c) ==
    [s EXCEPT !.pc[c] = "done", !.attempt[c] = 0, !.timeout[c] = 0,
              !.req_cred[c] = NoHarvest,
              !.content_yielded[c] = FALSE, !.deltas[c] = 0]

\* refresh_lock.release()
release(s) == [s EXCEPT !.lock_holder = NoCall]

NeedsRefresh(s) == ~s.latest_harvest.present \/ s.stale

\* request_token_refresh() followed by wait_for_refresh(timeout): when the
\* broadcast suspends in send_text the call resumes at clearpc, otherwise it
\* goes on to clear the events and block without a suspension in between.
start_refresh(s, c, failed, clearpc, waitpc, t) ==
    IF Suspends(s)
    THEN goto(request_token_refresh(s, failed), c, clearpc)
    ELSE wait_for_refresh(request_token_refresh(s, failed), c, waitpc, t)

end_of_loopNoDone(s, c) == return(s, c)

\* Lines 696-704: the retry loop was left without a return.
end_of_loop(s, c) == return(yield(s, c, DoneEvent), c)

\* Lines 296-556: one pass of the retry loop up to the suspension in
\* client.stream(...): read the credential, build the request, send it.
send_request(s, c) ==
    IF ~get_credentials(s).present
    THEN IF s.attempt[c] > 0 THEN end_of_loop(s, c) ELSE return(s, c)
    ELSE [s EXCEPT !.req_cred[c] = get_credentials(s),
                   !.requests[c] = @ + 1,
                   !.deltas[c] = 0,
                   !.pc[c] = "await_response"]

next_attemptSameRequest(s, c) ==
    IF s.attempt[c] + 1 <= max_retries
    THEN [s EXCEPT !.attempt[c] = @ + 1,
                   !.requests[c] = @ + 1,
                   !.deltas[c] = 0,
                   !.pc[c] = "await_response"]
    ELSE end_of_loop(s, c)

\* "continue": the next iteration of "for attempt in range(max_retries + 1)".
next_attempt(s, c) ==
    IF s.attempt[c] + 1 <= max_retries
    THEN send_request([s EXCEPT !.attempt[c] = @ + 1], c)
    ELSE end_of_loop(s, c)

preflight_lockedNoCheck(s, c, failed) ==
    start_refresh([s EXCEPT !.pre_bcasts[c] = @ + 1], c, failed,
                  "pre_clear", "pre_wait", PreflightTimeout)

\* Lines 258-268: the double check under the lock.
preflight_locked(s, c, failed) ==
    IF NeedsRefresh(s)
    THEN start_refresh([s EXCEPT !.pre_bcasts[c] = @ + 1], c, failed,
                       "pre_clear", "pre_wait", PreflightTimeout)
    ELSE send_request(release(s), c)

\* Lines 256-257: the first check and "async with cred_manager.refresh_lock".
\* asyncio.Lock.acquire() returns at once when the lock is free and nobody is
\* queued, and otherwise queues the caller.
enterNoLock(s, c, failed) ==
    IF NeedsRefresh(s)
    THEN preflight_locked(s, c, failed)
    ELSE send_request(s, c)

enter(s, c, failed) ==
    IF NeedsRefresh(s)
    THEN IF s.lock_holder = NoCall /\ s.lock_waiters = <<>>
         THEN preflight_locked([s EXCEPT !.lock_holder = c], c, failed)
         ELSE [s EXCEPT !.lock_waiters = Append(@, c),
                        !.queued_behind[c] =
                            IF s.lock_holder # NoCall THEN s.lock_holder
                            ELSE Head(s.lock_waiters),
                        !.pc[c] = "lock_wait"]
    ELSE send_request(s, c)

lock_acquiredNoRecheck(s, c, failed) ==
    start_refresh([s EXCEPT !.lock_holder = c, !.lock_waiters = Tail(@),
                            !.pre_bcasts[c] = @ + 1],
                  c, failed, "pre_clear", "pre_wait", PreflightTimeout)

\* The queued call is handed the lock.
lock_acquired(s, c, failed) ==
    preflight_locked([s EXCEPT !.lock_holder = c, !.lock_waiters = Tail(@)],
                     c, failed)

GuidanceEvent == Event("guidance", "", 0)

pre_wait_doneFailOnTimeout(s, c, refreshed) ==
    IF refreshed
    THEN goto(s, c, "pre_sleep")
    ELSE goto(yield(s, c, GuidanceEvent), c, "pre_fail_guidance")

\* Lines 272-290, after the pre-flight wait ended with result refreshed.
pre_wait_done(s, c, refreshed) ==
    IF refreshed
    THEN goto(s, c, "pre_sleep")
    ELSE IF ~s.latest_harvest.present
    THEN goto(yield(s, c, GuidanceEvent), c, "pre_fail_guidance")
    ELSE send_request(release(s), c)

ErrorEvent(s, c, type) == Event("error", type, s.attempt[c])

\* The error payload without the return that follows it: the call goes on
\* to the end of the loop.
failNoReturn(s, c, type) == end_of_loop(yield(s, c, ErrorEvent(s, c, type)), c)

\* "yield error_payload; return"
fail(s, c, type) == return(yield(s, c, ErrorEvent(s, c, type)), c)

\* Lines 559-591: the response's status line has arrived.
on_responseAlwaysRefresh(s, c, status, failed) ==
    IF status # 200
    THEN IF status \in AuthStatuses
         THEN start_refresh([s EXCEPT !.fail_bcasts[c] = @ + 1],
                            c, failed, "r401_clear", "r401_wait",
                            StatusRetryTimeout)
         ELSE fail(s, c, "upstream_error")
    ELSE goto(s, c, "streaming")

on_response(s, c, status, failed) ==
    IF status # 200
    THEN IF status \in AuthStatuses /\ s.attempt[c] < max_retries
         THEN start_refresh([s EXCEPT !.fail_bcasts[c] = @ + 1],
                            c, failed, "r401_clear", "r401_wait",
                            StatusRetryTimeout)
         ELSE fail(s, c, "upstream_error")
    ELSE goto(s, c, "streaming")

r401_wait_doneNoDelay(s, c, refreshed) ==
    IF refreshed
    THEN next_attempt(s, c)
    ELSE fail(s, c, "upstream_error")

\* Lines 571-589, after the wait of the status retry ended.
r401_wait_done(s, c, refreshed) ==
    IF refreshed
    THEN goto(s, c, "r401_sleep")
    ELSE fail(s, c, "upstream_error")

\* wait_for_refresh_complete: block on refresh_complete_event.
wait_for_refresh_complete(s, c) ==
    [s EXCEPT !.pc[c] = "auth_ui_wait", !.timeout[c] = UiTimeout,
              !.woken = @ \ {c}]

\* Lines 658-686: AuthError caught by the retry loop.
on_auth_errorAlwaysRetry(s, c, failed) ==
    start_refresh([s EXCEPT !.fail_bcasts[c] = @ + 1], c, failed,
                  "auth_clear", "auth_wait", AuthRetryTimeout)

on_auth_error(s, c, failed) ==
    IF s.attempt[c] < max_retries
    THEN start_refresh([s EXCEPT !.fail_bcasts[c] = @ + 1], c, failed,
                       "auth_clear", "auth_wait", AuthRetryTimeout)
    ELSE fail(s, c, "authentication_error")

auth_wait_done(s, c, refreshed) ==
    IF refreshed
    THEN wait_for_refresh_complete(s, c)
    ELSE fail(s, c, "authentication_error")

ui_wait_doneIgnoreTimeout(s, c, ui_ready) ==
    goto([s EXCEPT !.timeout[c] = 0, !.woken = @ \ {c}], c, "auth_sleep")

\* Lines 667-682, after wait_for_refresh_complete ended with result ui_ready.
ui_wait_done(s, c, ui_ready) ==
    IF ui_ready
    THEN goto([s EXCEPT !.timeout[c] = 0, !.woken = @ \ {c}], c, "auth_sleep")
    ELSE fail([s EXCEPT !.timeout[c] = 0, !.woken = @ \ {c}], c,
              "authentication_error")

\* Lines 688-694: any other exception of the attempt.
on_exception(s, c) ==
    IF s.attempt[c] < max_retries
    THEN next_attempt(s, c)
    ELSE fail(s, c, "request_error")

\* Lines 623-625: process_google_response yields an event, forwarded.
stream_delta(s, c) ==
    [yield(s, c, Event("delta", "", s.attempt[c]))
        EXCEPT !.content_yielded[c] = TRUE, !.deltas[c] = @ + 1]


(***************************************************************************)
(* The steps of a call of stream_chat.                                     *)
(***************************************************************************)
Enter(c) ==
    /\ pc[c] = "idle"
    /\ \E failed \in Failures(S) : Apply(enter(S, c, failed))

LockAcquired(c) ==
    /\ pc[c] = "lock_wait"
    /\ lock_holder = NoCall
    /\ lock_waiters # <<>>
    /\ Head(lock_waiters) = c
    /\ \E failed \in Failures(S) : Apply(lock_acquired(S, c, failed))

\* The broadcast's send_text has returned: wait_for_refresh starts.
BroadcastSent(c) ==
    /\ pc[c] \in {"pre_clear", "r401_clear", "auth_clear"}
    /\ Apply(CASE pc[c] = "pre_clear" ->
                    wait_for_refresh(S, c, "pre_wait", PreflightTimeout)
               [] pc[c] = "r401_clear" ->
                    wait_for_refresh(S, c, "r401_wait", StatusRetryTimeout)
               [] pc[c] = "auth_clear" ->
                    wait_for_refresh(S, c, "auth_wait", AuthRetryTimeout))

wait_done(s, c, refreshed) ==
    CASE s.pc[c] = "pre_wait" -> pre_wait_done(s, c, refreshed)
      [] s.pc[c] = "r401_wait" -> r401_wait_done(s, c, refreshed)
      [] s.pc[c] = "auth_wait" -> auth_wait_done(s, c, refreshed)

\* asyncio.wait_for(refresh_event.wait(), timeout) returns: True.
WaitReturn(c) ==
    /\ pc[c] \in CredWaitPcs
    /\ c \in woken
    /\ Apply(wait_done(wait_for_refresh_returned(S, c), c, TRUE))

\* asyncio.TimeoutError in wait_for_refresh: False.
WaitTimeout(c) ==
    /\ pc[c] \in CredWaitPcs
    /\ timeout[c] > 0
    /\ c \notin woken
    /\ Apply(wait_done(wait_for_refresh_timed_out(S, c), c, FALSE))

UiReturn(c) ==
    /\ pc[c] \in UiWaitPcs
    /\ (refresh_complete_event \/ c \in woken)
    /\ Apply(ui_wait_done(S, c, TRUE))

UiTimedOut(c) ==
    /\ pc[c] \in UiWaitPcs
    /\ timeout[c] > 0
    /\ ~refresh_complete_event
    /\ c \notin woken
    /\ Apply(ui_wait_done(S, c, FALSE))

\* asyncio.sleep(1) is over.
SleepDone(c) ==
    /\ pc[c] \in {"pre_sleep", "r401_sleep", "auth_sleep"}
    /\ Apply(IF pc[c] = "pre_sleep"
             THEN send_request(release(S), c)
             ELSE next_attempt(S, c))

\* The caller asks for the next event of a generator suspended at a yield
\* inside "async with refresh_lock" (lines 288-290).
ConsumerResume(c) ==
    /\ pc[c] \in {"pre_fail_guidance", "pre_fail_done"}
    /\ Apply(IF pc[c] = "pre_fail_guidance"
             THEN goto(yield(S, c, DoneEvent), c, "pre_fail_done")
             ELSE return(release(S), c))

\* The upstream's status line arrives and the call resumes in
\* "async with self.client.stream(...)" (line 557).
Response(c) ==
    /\ pc[c] = "await_response"
    /\ \E status \in Statuses, failed \in Failures(S) :
           Apply(on_response(
                     IF status = 200 THEN S
                     ELSE failed_with(S, c, StatusFailure),
                     c, status, failed))

\* A transport error, before the status line or in the middle of the body.
RequestException(c) ==
    /\ pc[c] \in {"await_response", "streaming"}
    /\ Apply(on_exception(failed_with(S, c, ExceptionFailure), c))

StreamDelta(c) ==
    /\ pc[c] = "streaming"
    /\ deltas[c] < MaxDeltas
    /\ Apply(stream_delta(S, c))

StreamAuthError(c) ==
    /\ pc[c] = "streaming"
    /\ \E failed \in Failures(S) :
           Apply(on_auth_error(failed_with(S, c, AuthErrorFailure), c, failed))

\* aiter_text() is exhausted: "break" out of the retry loop.
StreamEnd(c) ==
    /\ pc[c] = "streaming"
    /\ Apply(end_of_loop(S, c))

CallStep(c) ==
    \/ LockAcquired(c)
    \/ BroadcastSent(c)
    \/ WaitReturn(c)
    \/ WaitTimeout(c)
    \/ UiReturn(c)
    \/ UiTimedOut(c)
    \/ SleepDone(c)
    \/ ConsumerResume(c)
    \/ Response(c)
    \/ RequestException(c)
    \/ StreamDelta(c)
    \/ StreamAuthError(c)
    \/ StreamEnd(c)

(***************************************************************************)
(* The environment: the clock, the harvesters, the keep-alive task.        *)
(***************************************************************************)
\* 3000 seconds have gone by since last_updated.
TimePasses ==
    /\ latest_harvest.present
    /\ ~stale
    /\ Apply([S EXCEPT !.stale = TRUE])

WsConnect(h) ==
    /\ h \notin harvester_clients
    /\ Apply([S EXCEPT !.harvester_clients = @ \cup {h}])

WsDisconnect(h) ==
    /\ h \in harvester_clients
    /\ Apply([S EXCEPT !.harvester_clients = @ \ {h}])

\* websocket_endpoint: {"type": "credentials_harvested", "data": ...}
WsCredentialsHarvested(h) ==
    /\ h \in harvester_clients
    /\ last_updated < MaxUpdates
    /\ Apply(update(S, Harvest(last_updated + 1)))

\* websocket_endpoint: {"type": "token_refreshed", "token": ...}
WsTokenRefreshed(h) ==
    /\ h \in harvester_clients
    /\ last_updated < MaxUpdates
    /\ Apply(update_token(S, last_updated + 1))

\* websocket_endpoint: {"type": "refresh_complete"}
WsRefreshComplete(h) ==
    /\ h \in harvester_clients
    /\ Apply(set_refresh_complete_event(S))

\* keep_alive_loop: the scheduled refresh.
KeepAlive ==
    \E failed \in Failures(S) : Apply(request_token_refresh(S, failed))

(***************************************************************************)
(* The gateway's specification.                                            *)
(***************************************************************************)
ParserIdle ==
    /\ layout = <<>>
    /\ stream = <<>>
    /\ fed = 0
    /\ buffer = <<>>
    /\ decoded = <<>>
    /\ stream_open = FALSE

\* No refresh primitive is being applied on its own.
CoordIdle ==
    /\ signalled = {}
    /\ broadcast_queue = <<>>
    /\ registered = {}
    /\ refresh_sent = {}
    /\ answered = {}

\* No function is being applied on its own.
UnitsIdle ==
    /\ unit_pc = "idle"
    /\ google_data = <<>>
    /\ sse = <<>>
    /\ chat_events = <<>>
    /\ response_data = <<>>
    /\ chat_request = <<>>
    /\ sent = <<>>
    /\ credentials_file = <<>>
    /\ CoordIdle

Init ==
    /\ latest_harvest \in {NoHarvest, Harvest(0)}
    /\ last_updated = 0
    /\ stale \in (IF latest_harvest.present THEN BOOLEAN ELSE {TRUE})
    /\ refresh_event = TRUE
    /\ refresh_complete_event = TRUE
    /\ lock_holder = NoCall
    /\ lock_waiters = <<>>
    /\ woken = {}
    /\ harvester_clients = {}
    /\ harvester_running = FALSE
    /\ harvest_tasks = FALSE
    /\ pc = [c \in Calls |-> "idle"]
    /\ attempt = [c \in Calls |-> 0]
    /\ timeout = [c \in Calls |-> 0]
    /\ req_cred = [c \in Calls |-> NoHarvest]
    /\ content_yielded = [c \in Calls |-> FALSE]
    /\ deltas = [c \in Calls |-> 0]
    /\ events = [c \in Calls |-> NoEvents]
    /\ requests = [c \in Calls |-> 0]
    /\ pre_bcasts = [c \in Calls |-> 0]
    /\ fail_bcasts = [c \in Calls |-> 0]
    /\ failures = [c \in Calls |-> <<>>]
    /\ queued_behind = [c \in Calls |-> NoCall]
    /\ ParserIdle
    /\ UnitsIdle

Next ==
    \/ \E c \in Calls : Enter(c)
    \/ \E c \in Calls : CallStep(c)
    \/ TimePasses
    \/ \E h \in WsClients : WsConnect(h)
    \/ \E h \in WsClients : WsDisconnect(h)
    \/ \E h \in WsClients : WsCredentialsHarvested(h)
    \/ \E h \in WsClients : WsTokenRefreshed(h)
    \/ \E h \in WsClients : WsRefreshComplete(h)
    \/ KeepAlive

Spec == Init /\ [][Next]_vars


(***************************************************************************)
(* Properties of the refresh coordination, under Spec.                     *)
(***************************************************************************)
Last(seq) == seq[Len(seq)]

\* Between the pre-flight broadcast and the end of its wait.
PreflightRefreshPcs == {"pre_clear", "pre_wait"}

\* Between a broadcast and the end of the initiator's wait for the credential
\* and, after an AuthError, for the UI-settled signal.
RefreshPcs ==
    {"pre_clear", "pre_wait", "r401_clear", "r401_wait",
     "auth_clear", "auth_wait", "auth_ui_wait"}

C2_RefreshSerialized ==
    Cardinality({c \in Calls : pc[c] \in RefreshPcs}) <= 1

\* Where a wait for the credential goes on when it returns True.
AfterRefreshed(p) ==
    CASE p = "pre_wait" -> "pre_sleep"
      [] p = "r401_wait" -> "r401_sleep"
      [] p = "auth_wait" -> "auth_ui_wait"

ErrorEvents(c) == {i \in DOMAIN events[c] : events[c][i].kind = "error"}

DeltaEvents(c) == {i \in DOMAIN events[c] : events[c][i].kind = "delta"}

\* C4: an in-band AuthError on the first attempt starts exactly one refresh
\* and at most one retried request; when the retried attempt fails the same
\* way the call has ended after two upstream requests with one error event,
\* its last event, of type authentication_error.
C4_AuthErrorRetriedOnce ==
    \A c \in Calls :
        /\ (failures[c] # <<>> /\ failures[c][1] = AuthErrorFailure) =>
               fail_bcasts[c] = 1 /\ requests[c] <= 2
        /\ failures[c] = <<AuthErrorFailure, AuthErrorFailure>> =>
               /\ pc[c] = "done"
               /\ requests[c] = 2
               /\ Cardinality(ErrorEvents(c)) = 1
               /\ Last(events[c]) = Event("error", "authentication_error", 1)

\* C4's case: both attempts of a call have failed with an in-band AuthError.
C4_Witness ==
    \E c \in Calls : failures[c] = <<AuthErrorFailure, AuthErrorFailure>>

\* C5: whatever the failures of a call, it issues at most max_retries + 1 = 2
\* upstream requests and starts at most one failure-triggered refresh.
C5_RetriedAtMostOnce ==
    \A c \in Calls :
        /\ requests[c] <= max_retries + 1
        /\ fail_bcasts[c] <= 1
        /\ Len(failures[c]) <= max_retries + 1

\* C5's case: a call has ended after two attempts that failed in two
\* different ways, with one refresh between them.
C5_Witness ==
    \E c \in Calls :
        /\ pc[c] = "done"
        /\ requests[c] = 2
        /\ fail_bcasts[c] = 1
        /\ Len(failures[c]) = 2
        /\ failures[c][1] # failures[c][2]

\* C6: the event stream of every call that has ended ends with [DONE].
C6_EndsWithDone ==
    \A c \in Calls :
        pc[c] = "done" => events[c] # <<>> /\ Last(events[c]) = DoneEvent

\* C7: when a 200 response's stream ends and the call has emitted no
\* translated event, the call ends in that step with [DONE] as its only
\* event.
C7_EmptyStreamEndsWithDone ==
    [][\A c \in Calls :
          (/\ pc[c] = "streaming"
           /\ pc'[c] # "streaming"
           /\ failures'[c] = failures[c]
           /\ DeltaEvents(c) = {}) =>
              pc'[c] = "done" /\ events'[c] = <<DoneEvent>>]_vars

\* C7's case: a call that got a 200 response has ended with [DONE] alone.
C7_Witness ==
    \E c \in Calls :
        /\ pc[c] = "done"
        /\ requests[c] >= 1
        /\ Len(failures[c]) < requests[c]
        /\ events[c] = <<DoneEvent>>

(***************************************************************************)
(* Termination, under Spec.  The event loop runs every task that is ready, *)
(* every armed timer fires, the upstream answers or the request fails      *)
(* (httpx timeout=120) and the caller keeps asking for the next event;     *)
(* nothing is assumed of the harvesters.  A call then ends when it always  *)
(* has a step to take, or waits for the lock behind a call that has one,   *)
(* and every step it takes brings it closer to its end.                    *)
(***************************************************************************)
\* The length of one pass of the retry loop, in steps.
AttemptRank == MaxDeltas + 8

StageRank(c) ==
    CASE pc[c] = "await_response" -> MaxDeltas + 7
      [] pc[c] = "streaming" -> (MaxDeltas - deltas[c]) + 6
      [] pc[c] \in {"r401_clear", "auth_clear"} -> 5
      [] pc[c] \in {"r401_wait", "auth_wait"} -> 4
      [] pc[c] = "auth_ui_wait" -> 3
      [] pc[c] \in {"r401_sleep", "auth_sleep"} -> 2

\* An upper bound of the steps a call has left.
Rank(c) ==
    LET top == (max_retries + 1) * AttemptRank
    IN  CASE pc[c] = "done" -> 0
          [] pc[c] = "idle" -> top + 6
          [] pc[c] = "lock_wait" -> top + 5
          [] pc[c] = "pre_clear" -> top + 4
          [] pc[c] = "pre_wait" -> top + 3
          [] pc[c] \in {"pre_sleep", "pre_fail_guidance"} -> top + 2
          [] pc[c] = "pre_fail_done" -> top + 1
          [] OTHER -> (max_retries - attempt[c]) * AttemptRank + StageRank(c)

\* The call the lock's next release or hand-over depends on.
Blocker == IF lock_holder # NoCall THEN lock_holder ELSE Head(lock_waiters)

MaxItems == 2

Quote == "\""
Blank == " "

Min(set) == CHOOSE m \in set : \A n \in set : m <= n

\* str.lstrip()
RECURSIVE lstrip(_)
lstrip(b) ==
    IF b # <<>> /\ Head(b) = Blank THEN lstrip(Tail(b)) ELSE b

\* The index of the first non-blank character of b at or after i, or
\* Len(b) + 1.
skip_blanks(b, i) ==
    Min({j \in i..Len(b) : b[j] # Blank} \cup {Len(b) + 1})

\* The index of the first quote of b at or after i, or Len(b) + 1.
closing_quote(b, i) ==
    Min({j \in i..Len(b) : b[j] = Quote} \cup {Len(b) + 1})

Huge == "9"

JSONDecodeError == [result |-> "JSONDecodeError", obj |-> <<>>, idx |-> 0]

\* What the scanner raises when int() refuses the digits of a literal.
ValueError == [result |-> "ValueError", obj |-> <<>>, idx |-> 0]

Decoded(kind, text, idx) ==
    [result |-> "ok", obj |-> <<kind, text>>, idx |-> idx]

\* The string whose opening quote is b[i]: its text and the index of its
\* closing quote, or 0 when b ends first.
scan_string(b, i) ==
    LET j == closing_quote(b, i + 1)
    IN  IF j > Len(b)
        THEN [end |-> 0, text |-> <<>>]
        ELSE [end |-> j, text |-> SubSeq(b, i + 1, j - 1)]

\* json.JSONDecoder().raw_decode(b): the value that starts at b[1] and the
\* number of characters it takes, or the exception it raises.
raw_decode(b) ==
    IF b[1] = Huge
    THEN ValueError
    ELSE IF b[1] = Quote
    THEN LET str == scan_string(b, 1)
         IN  IF str.end = 0
             THEN JSONDecodeError
             ELSE Decoded("string", str.text, str.end)
    ELSE IF b[1] = "{"
    THEN LET i == skip_blanks(b, 2)
         IN  IF i > Len(b)
             THEN JSONDecodeError
             ELSE IF b[i] = "}"
             THEN Decoded("empty", <<>>, i)
             ELSE IF b[i] = Quote
             THEN LET str == scan_string(b, i)
                      k == skip_blanks(b, str.end + 1)
                  IN  IF str.end = 0 \/ k > Len(b)
                      THEN JSONDecodeError
                      ELSE IF b[k] = "}"
                      THEN Decoded("object", str.text, k)
                      ELSE IF b[k] = Huge
                      THEN ValueError
                      ELSE JSONDecodeError
             ELSE JSONDecodeError
    ELSE JSONDecodeError

\* Lines 638-653: the resynchronisation of the "except Exception" branch.
resync(b) ==
    LET starts == {j \in 1..Len(b) : b[j] \in {"[", "{"}}
    IN  IF starts # {}
        THEN SubSeq(b, Min(starts), Len(b))
        ELSE Tail(b)

\* Lines 603-653: one pass of "while buffer:" on the buffer b, not empty,
\* with out decoded so far; again tells whether the pass ends in the loop's
\* test again ("continue", or the end of the body) or in "break".
\* process_google_response catches every exception of its own but
\* AuthError, so the branch of line 633 is taken for what raw_decode raises
\* other than JSONDecodeError.
while_pass(b, out) ==
    LET buf == lstrip(b)
    IN  IF buf = <<>>
        THEN [buffer |-> buf, decoded |-> out, again |-> FALSE]
        ELSE IF Head(buf) \in {"[", ",", "]"}
        THEN [buffer |-> Tail(buf), decoded |-> out, again |-> TRUE]
        ELSE LET r == raw_decode(buf)
             IN  CASE r.result = "ok" ->
                        [buffer |-> SubSeq(buf, r.idx + 1, Len(buf)),
                         decoded |-> Append(out, r.obj), again |-> TRUE]
                   [] r.result = "JSONDecodeError" ->
                        [buffer |-> buf, decoded |-> out, again |-> FALSE]
                   [] OTHER ->
                        [buffer |-> resync(buf), decoded |-> out,
                         again |-> TRUE]

\* Lines 602-653: "while buffer:", from buffer b with out decoded so far.
RECURSIVE parse_loopDropPartial(_, _)
parse_loopDropPartial(b, out) ==
    LET buf == lstrip(b)
    IN  IF buf = <<>>
        THEN [buffer |-> buf, decoded |-> out]
        ELSE IF Head(buf) \in {"[", ",", "]"}
        THEN parse_loopDropPartial(Tail(buf), out)
        ELSE LET r == raw_decode(buf)
             IN  IF r.result = "ok"
                 THEN parse_loopDropPartial(SubSeq(buf, r.idx + 1, Len(buf)),
                                            Append(out, r.obj))
                 ELSE [buffer |-> <<>>, decoded |-> out]

RECURSIVE parse_loop(_, _)
parse_loop(b, out) ==
    IF b = <<>>
    THEN [buffer |-> b, decoded |-> out]
    ELSE LET r == while_pass(b, out)
         IN  IF r.again
             THEN parse_loop(r.buffer, r.decoded)
             ELSE [buffer |-> r.buffer, decoded |-> r.decoded]

(***************************************************************************)
(* What the upstream sends: an array of items, each an object or a run of  *)
(* stray characters.                                                       *)
(***************************************************************************)
ObjectItem(pad, text) ==
    [src |-> <<"{">> \o pad \o <<Quote>> \o text \o <<Quote, "}">>,
     value |-> <<"object", text>>, stray |-> FALSE]

EmptyItem ==
    [src |-> <<"{", Blank, "}">>, value |-> <<"empty", <<>>>>, stray |-> FALSE]

StrayItem ==
    [src |-> <<"x">>, value |-> <<"stray", <<>>>>, stray |-> TRUE]

ObjectItems ==
    { ObjectItem(<<>>, <<"a">>),
      ObjectItem(<<>>, <<"b">>),
      ObjectItem(<<Blank>>, <<"]", ",">>),
      EmptyItem }

Layouts ==
    UNION {[1..n -> ObjectItems \cup {StrayItem}] : n \in 0..MaxItems}

RECURSIVE Join(_)
Join(items) ==
    IF items = <<>> THEN <<>>
    ELSE IF Len(items) = 1 THEN items[1].src
    ELSE items[1].src \o <<",", Blank>> \o Join(Tail(items))

\* The array-framed text of a layout: [item, item, ...]
Framed(items) == <<"[">> \o Join(items) \o <<"]">>

RECURSIVE Values(_)
Values(items) ==
    IF items = <<>> THEN <<>>
    ELSE (IF items[1].stray THEN <<>> ELSE <<items[1].value>>)
         \o Values(Tail(items))

HasStray(items) == \E i \in 1..Len(items) : items[i].stray

(***************************************************************************)
(* The steps of the parser: response.aiter_text() hands over the next      *)
(* chunk, of any length, and the loop of lines 602-653 runs on the buffer. *)
(***************************************************************************)
Chunk(n) ==
    /\ stream_open
    /\ fed + n <= Len(stream)
    /\ LET r == parse_loop(buffer \o SubSeq(stream, fed + 1, fed + n), decoded)
       IN  /\ buffer' = r.buffer
           /\ decoded' = r.decoded
    /\ fed' = fed + n
    /\ UNCHANGED <<layout, stream, stream_open>>
    /\ UNCHANGED gatewayVars
    /\ UNCHANGED unitVars

\* aiter_text() is exhausted.
StreamCloses ==
    /\ stream_open
    /\ fed = Len(stream)
    /\ stream_open' = FALSE
    /\ UNCHANGED <<layout, stream, fed, buffer, decoded>>
    /\ UNCHANGED gatewayVars
    /\ UNCHANGED unitVars

\* No call of stream_chat is under way and no harvester is connected.
CallsIdle ==
    /\ stale = FALSE
    /\ refresh_event = TRUE
    /\ refresh_complete_event = TRUE
    /\ lock_holder = NoCall
    /\ lock_waiters = <<>>
    /\ woken = {}
    /\ harvester_clients = {}
    /\ harvester_running = FALSE
    /\ harvest_tasks = FALSE
    /\ pc = [c \in Calls |-> "idle"]
    /\ attempt = [c \in Calls |-> 0]
    /\ timeout = [c \in Calls |-> 0]
    /\ req_cred = [c \in Calls |-> NoHarvest]
    /\ content_yielded = [c \in Calls |-> FALSE]
    /\ deltas = [c \in Calls |-> 0]
    /\ events = [c \in Calls |-> NoEvents]
    /\ requests = [c \in Calls |-> 0]
    /\ pre_bcasts = [c \in Calls |-> 0]
    /\ fail_bcasts = [c \in Calls |-> 0]
    /\ failures = [c \in Calls |-> <<>>]
    /\ queued_behind = [c \in Calls |-> NoCall]

GatewayIdle ==
    /\ latest_harvest = Harvest(0)
    /\ last_updated = 0
    /\ CallsIdle

InitParser ==
    /\ GatewayIdle
    /\ UnitsIdle
    /\ layout \in Layouts
    /\ stream = Framed(layout)
    /\ fed = 0
    /\ buffer = <<>>
    /\ decoded = <<>>
    /\ stream_open = TRUE

NextParser ==
    \/ \E n \in 1..(Len(stream) - fed) : Chunk(n)
    \/ StreamCloses

SpecParser == InitParser /\ [][NextParser]_vars


(***************************************************************************)
(* Properties of the stream parser, under SpecParser.                      *)
(***************************************************************************)
IsPrefix(p, q) == Len(p) <= Len(q) /\ SubSeq(q, 1, Len(p)) = p

\* C9: for an array-framed stream of k well-formed objects and any split of
\* it into chunks, the parser hands over a prefix of those objects at every
\* moment, in their order and none twice, and exactly the k objects, with an
\* empty buffer, once the last chunk has arrived.
C9_ChunkingIndependent ==
    ~HasStray(layout) =>
        /\ IsPrefix(decoded, Values(layout))
        /\ fed = Len(stream) => decoded = Values(layout) /\ buffer = <<>>

\* C9's case: a chunk ended in the middle of the second object, after the
\* first one was decoded.
C9_Witness ==
    /\ ~HasStray(layout)
    /\ Len(layout) = 2
    /\ Len(decoded) = 1
    /\ fed < Len(stream)
    /\ buffer # <<>>
    /\ Head(buffer) = "{"

\* C10: stray characters are skipped, so that once the whole stream has
\* arrived every well-formed object of it has been decoded and nothing is
\* left in the buffer.
C10_StrayBytesRecovered ==
    (HasStray(layout) /\ fed = Len(stream)) =>
        decoded = Values(layout) /\ buffer = <<>>


(***************************************************************************)
(* Properties of the pre-flight refresh, under Spec.                       *)
(***************************************************************************)
\* C13: when the pre-flight wait of a call times out and a credential is
\* stored, the call sends its upstream request in that step, built from the
\* stored credential, and emits nothing; when none is stored it issues no
\* request and emits the guidance message.  A call that emitted the guidance
\* message never issues an upstream request, emits only [DONE] after it, and
\* has emitted both when it has ended.
C13_PreflightTimeout ==
    /\ [](\A c \in Calls :
            (\E i \in DOMAIN events[c] : events[c][i] = GuidanceEvent) =>
                /\ requests[c] = 0
                /\ events[c] \in {<<GuidanceEvent>>, <<GuidanceEvent, DoneEvent>>}
                /\ pc[c] = "done" => events[c] = <<GuidanceEvent, DoneEvent>>)
    /\ [][\A c \in Calls :
            (pc[c] = "pre_wait" /\ pc'[c] \notin {"pre_wait", "pre_sleep"}) =>
                IF latest_harvest.present
                THEN /\ pc'[c] = "await_response"
                     /\ requests'[c] = requests[c] + 1
                     /\ req_cred'[c] = latest_harvest
                     /\ events'[c] = events[c]
                ELSE /\ pc'[c] = "pre_fail_guidance"
                     /\ requests'[c] = requests[c]
                     /\ events'[c] = Append(events[c], GuidanceEvent)]_vars

\* C13's case: no credential was delivered since the start, the pre-flight
\* wait of a call has timed out, and the call has sent its request with the
\* stale credential.
C13_Witness ==
    \E c \in Calls :
        /\ pc[c] = "await_response"
        /\ pre_bcasts[c] = 1
        /\ requests[c] = 1
        /\ last_updated = 0
        /\ stale
        /\ req_cred[c] = Harvest(0)
        /\ events[c] = NoEvents


\* C20: a call that queued on the refresh lock and is handed it while a
\* credential is stored and fresh issues no broadcast and clears neither
\* signal: in that step it releases the lock and sends its upstream request,
\* built from the stored credential.
C20_RecheckUnderLock ==
    [][\A c \in Calls :
          (pc[c] = "lock_wait" /\ pc'[c] # "lock_wait" /\ ~NeedsRefresh(S)) =>
              /\ pre_bcasts'[c] = pre_bcasts[c]
              /\ refresh_event' = refresh_event
              /\ refresh_complete_event' = refresh_complete_event
              /\ lock_holder' = NoCall
              /\ pc'[c] = "await_response"
              /\ requests'[c] = requests[c] + 1
              /\ req_cred'[c] = latest_harvest]_vars

\* C20's case: the call queued behind a holder whose refresh was answered
\* by a new credential; it has sent its request with that credential
\* without a broadcast of its own.
C20_Witness ==
    \E c \in Calls :
        /\ queued_behind[c] # NoCall
        /\ pre_bcasts[queued_behind[c]] = 1
        /\ pre_bcasts[c] = 0
        /\ pc[c] = "await_response"
        /\ requests[c] = 1
        /\ last_updated = 1
        /\ req_cred[c] = Harvest(1)
        /\ ~stale


(***************************************************************************)
(* The translator: VertexAIClient.process_google_response, lines 706-811.  *)
(* It is a generator; its result is the chunks it yielded and whether it   *)
(* ended by raising AuthError.  A dict is a record, and a key the dict     *)
(* lacks (or None) is the value Absent.  The id and created fields of a    *)
(* chunk (a uuid, the clock) are left out.                                 *)
(***************************************************************************)
MaxParts == 2

Absent == "absent"

\* The parts of a candidate: text (possibly empty), the thought flag, and
\* an image as inlineData or as a uri.
Parts == [text : {"", "t"}, thought : BOOLEAN,
          image : {Absent, "inlineData", "uri"}]

\* The messages of a result's errors entry, each a sequence of words.
ErrorMessages ==
    {<<"Recaptcha", "failed">>, <<"recaptcha", "failed">>,
     <<"Invalid", "token">>, <<"Token", "expired">>, <<"TOKEN">>,
     <<"Authentication", "required">>, <<"authentication", "required">>,
     <<"Quota", "exceeded">>}

\* str.lower() on the finish reasons and on the words of a message.
lower(str) ==
    CASE str = "STOP" -> "stop"
      [] str = "MAX_TOKENS" -> "max_tokens"
      [] str = "SAFETY" -> "safety"
      [] str = "Recaptcha" -> "recaptcha"
      [] str = "Invalid" -> "invalid"
      [] str = "Token" -> "token"
      [] str = "TOKEN" -> "token"
      [] str = "Authentication" -> "authentication"
      [] str = "Quota" -> "quota"
      [] OTHER -> str

IsAuthMessageCaseSensitive(msg) ==
    \E i \in DOMAIN msg : msg[i] \in {"Recaptcha", "token", "Authentication"}

\* The keyword test of line 728:
\* "Recaptcha" in msg or "token" in msg.lower() or "Authentication" in msg
IsAuthMessage(msg) ==
    \/ \E i \in DOMAIN msg : msg[i] = "Recaptcha"
    \/ \E i \in DOMAIN msg : lower(msg[i]) = "token"
    \/ \E i \in DOMAIN msg : msg[i] = "Authentication"

EmptyDelta == [content |-> Absent, reasoning_content |-> Absent]

\* Lines 747-768: the delta of one part.
part_delta(part) ==
    LET text_delta ==
            IF part.text = "" THEN EmptyDelta
            ELSE IF part.thought
                 THEN [EmptyDelta EXCEPT !.reasoning_content = part.text]
                 ELSE [EmptyDelta EXCEPT !.content = part.text]
        image_md ==
            IF part.image = "inlineData"
            THEN "![Generated Image](data:image/png;base64,AAAA)"
            ELSE "![Generated Image](uri)"
    IN  IF part.image = Absent THEN text_delta
        ELSE [text_delta EXCEPT !.content = image_md]

\* Lines 746-778: the chunks of a candidate's parts.
RECURSIVE part_chunks(_)
part_chunks(parts) ==
    IF parts = <<>> THEN <<>>
    ELSE (IF part_delta(Head(parts)) = EmptyDelta THEN <<>>
          ELSE <<[delta |-> part_delta(Head(parts)),
                  finish_reason |-> Absent]>>)
         \o part_chunks(Tail(parts))

\* Line 785.
is_thought_part(parts) == \E i \in DOMAIN parts : parts[i].thought

candidate_chunksAlwaysFinish(candidate) ==
    part_chunks(candidate.parts)
    \o (IF candidate.finishReason \in {"STOP", "MAX_TOKENS"}
        THEN <<[delta |-> EmptyDelta,
                 finish_reason |-> lower(candidate.finishReason)]>>
        ELSE <<>>)

\* Lines 742-796: one iteration of the loop over the candidates.
candidate_chunks(candidate) ==
    part_chunks(candidate.parts)
    \o (IF /\ candidate.finishReason \in {"STOP", "MAX_TOKENS"}
           /\ ~is_thought_part(candidate.parts)
        THEN <<[delta |-> EmptyDelta,
                 finish_reason |-> lower(candidate.finishReason)]>>
        ELSE <<>>)

RECURSIVE candidates_chunks(_)
candidates_chunks(candidates) ==
    IF candidates = <<>> THEN <<>>
    ELSE candidate_chunks(Head(candidates))
         \o candidates_chunks(Tail(candidates))

\* Lines 722-796: the loop over the results.  A result with an errors entry
\* raises AuthError on a keyword and is skipped otherwise.
RECURSIVE results_chunks(_)
results_chunks(results) ==
    IF results = <<>> THEN [chunks |-> <<>>, raised |-> FALSE]
    ELSE LET result == Head(results)
             rest == results_chunks(Tail(results))
         IN  IF result.has_errors
             THEN IF \E i \in DOMAIN result.errors :
                         IsAuthMessage(result.errors[i])
                  THEN [chunks |-> <<>>, raised |-> TRUE]
                  ELSE rest
             ELSE [rest EXCEPT
                      !.chunks = candidates_chunks(result.candidates) \o @]

\* Lines 708-718 and 797-801.
process_google_response(d) ==
    IF d.error THEN [chunks |-> <<>>, raised |-> FALSE]
    ELSE results_chunks(d.results)

(***************************************************************************)
(* The objects the translator is applied to.                               *)
(***************************************************************************)
Candidates ==
    [parts : UNION {[1..n -> Parts] : n \in 0..MaxParts},
     finishReason : {Absent, "STOP", "MAX_TOKENS", "SAFETY"}]

\* A second candidate of the same result.
Followers ==
    [parts : {<<>>, <<[text |-> "t", thought |-> FALSE, image |-> Absent]>>,
              <<[text |-> "t", thought |-> TRUE, image |-> Absent]>>},
     finishReason : {Absent, "STOP"}]

\* A result: whether it has an errors entry, the entry, and the candidates
\* of its data entry.
Result(errors, candidates) ==
    [has_errors |-> errors # <<>>, errors |-> errors,
     candidates |-> candidates]

GoogleData ==
    {[error |-> FALSE, results |-> <<Result(<<>>, <<c>>)>>] :
        c \in Candidates}
    \cup {[error |-> FALSE, results |-> <<Result(<<>>, <<c, f>>)>>] :
            c \in Candidates, f \in Followers}
    \cup {[error |-> FALSE, results |-> <<Result(<<>>, <<f, c>>)>>] :
            c \in Candidates, f \in Followers}
    \cup {[error |-> FALSE,
           results |-> <<Result(<<>>, <<f>>), Result(<<m>>, <<g>>)>>] :
            f \in Followers, g \in Followers, m \in ErrorMessages}
    \cup {[error |-> FALSE,
           results |-> <<Result(<<m>>, <<g>>), Result(<<>>, <<f>>)>>] :
            f \in Followers, g \in Followers, m \in ErrorMessages}
    \cup {[error |-> FALSE,
           results |-> <<Result(<<m, n>>, <<f>>)>>] :
            f \in Followers, m \in ErrorMessages, n \in ErrorMessages}
    \cup {[error |-> FALSE,
           results |-> <<Result(<<m>>, <<f>>), Result(<<n>>, <<f>>)>>] :
            f \in Followers, m \in ErrorMessages, n \in ErrorMessages}
    \cup {[error |-> FALSE,
           results |-> <<[Result(<<>>, <<f>>) EXCEPT !.has_errors = TRUE],
                         Result(<<>>, <<g>>)>>] :
            f \in Followers, g \in Followers}
    \cup {[error |-> TRUE, results |-> <<Result(<<m>>, <<f>>)>>] :
            f \in Followers, m \in ErrorMessages}
    \cup {[error |-> e, results |-> <<>>] : e \in BOOLEAN}
    \cup {[error |-> TRUE, results |-> <<Result(<<>>, <<f>>)>>] :
            f \in Followers}

ProcessGoogleResponse ==
    /\ unit_pc = "process_google_response"
    /\ unit_pc' = "returned"
    /\ sse' = process_google_response(google_data)
    /\ UNCHANGED <<google_data, chat_events, response_data, chat_request, sent,
                   credentials_file>>
    /\ UNCHANGED <<gatewayVars, parserVars, coordVars>>

InitTranslator ==
    /\ GatewayIdle
    /\ ParserIdle
    /\ unit_pc = "process_google_response"
    /\ google_data \in GoogleData
    /\ sse = <<>>
    /\ chat_events = <<>>
    /\ response_data = <<>>
    /\ chat_request = <<>>
    /\ sent = <<>>
    /\ credentials_file = <<>>
    /\ CoordIdle

SpecTranslator == InitTranslator /\ [][ProcessGoogleResponse]_vars


(***************************************************************************)
(* Properties of the translator, under SpecTranslator.                     *)
(***************************************************************************)
\* The candidates of an object that has no error entry, in order.
RECURSIVE CandidatesOf(_)
CandidatesOf(results) ==
    IF results = <<>> THEN <<>>
    ELSE Head(results).candidates \o CandidatesOf(Tail(results))

NoErrorEntry(d) ==
    ~d.error /\ \A i \in DOMAIN d.results : ~d.results[i].has_errors

Finishing(candidate) ==
    /\ candidate.finishReason \in {"STOP", "MAX_TOKENS"}
    /\ \A i \in DOMAIN candidate.parts : ~candidate.parts[i].thought

IsFinishChunk(chunk) == chunk.finish_reason # Absent

MaxEvents == 3

ChatChunk(delta, finish_reason) ==
    [kind |-> "chunk", delta |-> delta, finish_reason |-> finish_reason,
     type |-> Absent]

ErrorPayload(type) ==
    [kind |-> "error", delta |-> [k \in {} |-> <<>>],
     finish_reason |-> Absent, type |-> type]

Done ==
    [kind |-> "done", delta |-> [k \in {} |-> <<>>],
     finish_reason |-> Absent, type |-> Absent]

\* The chunks stream_chat forwards from process_google_response, and the
\* guidance chunk of lines 279-288.
ChatChunks ==
    {ChatChunk([k \in {"content"} |-> <<t>>], Absent) : t \in {"a", "b"}}
    \cup {ChatChunk([k \in {"reasoning_content"} |-> <<"r">>], Absent)}
    \cup {ChatChunk([k \in {} |-> <<>>], f) : f \in {"stop", "max_tokens"}}
    \cup {ChatChunk([k \in {"content"} |-> <<"guidance">>], "stop")}

ErrorTypes == {"upstream_error", "authentication_error", "request_error"}

\* stream_chat ends with [DONE] or with an error payload.
ChatEvents ==
    {chunks \o <<last>> :
        chunks \in UNION {[1..n -> ChatChunks] : n \in 0..MaxEvents},
        last \in {Done} \cup {ErrorPayload(t) : t \in ErrorTypes}}

\* Lines 188-214: the loop over the events, from the accumulators acc.
RECURSIVE aggregate(_, _)
aggregate(evs, acc) ==
    IF evs = <<>> THEN acc
    ELSE LET ev == Head(evs)
             choices == IF ev.kind = "chunk" THEN <<ev>> ELSE <<>>
         IN  IF ev.kind = "done" \/ choices = <<>>
             THEN aggregate(Tail(evs), acc)
             ELSE LET delta == choices[1].delta
                      acc1 == IF "content" \in DOMAIN delta
                              THEN [acc EXCEPT !.full_content = @ \o delta["content"]]
                              ELSE acc
                      acc2 == IF "reasoning_content" \in DOMAIN delta
                              THEN [acc1 EXCEPT !.reasoning_content =
                                                  @ \o delta["reasoning_content"]]
                              ELSE acc1
                      acc3 == IF choices[1].finish_reason \notin {Absent, ""}
                              THEN [acc2 EXCEPT !.finish_reason =
                                                  choices[1].finish_reason]
                              ELSE acc2
                  IN  aggregate(Tail(evs), acc3)

complete_chatFirstFinish(evs) ==
    LET acc == aggregate(evs, [full_content |-> <<>>, reasoning_content |-> <<>>,
                               finish_reason |-> "stop"])
        first == SelectSeq(evs, LAMBDA ev : ev.kind = "chunk"
                                            /\ ev.finish_reason # Absent)
        final_content ==
            IF acc.reasoning_content # <<>>
            THEN <<"**Reasoning:**\n">> \o acc.reasoning_content
                 \o <<"\n\n**Response:**\n">> \o acc.full_content
            ELSE acc.full_content
    IN  [object |-> "chat.completion",
         content |-> IF final_content = <<>> THEN <<" ">> ELSE final_content,
         finish_reason |-> IF first = <<>> THEN "stop"
                           ELSE first[1].finish_reason]

\* Lines 183-249.
complete_chat(evs) ==
    LET acc == aggregate(evs, [full_content |-> <<>>, reasoning_content |-> <<>>,
                               finish_reason |-> "stop"])
        final_content ==
            IF acc.reasoning_content # <<>>
            THEN <<"**Reasoning:**\n">> \o acc.reasoning_content
                 \o <<"\n\n**Response:**\n">> \o acc.full_content
            ELSE acc.full_content
    IN  [object |-> "chat.completion",
         content |-> IF final_content = <<>> THEN <<" ">> ELSE final_content,
         finish_reason |-> acc.finish_reason]

\* Lines 888-904, stream=false: the answer is complete_chat's response, with
\* status 200; an exception would become status 500, and complete_chat
\* raises none on these events.
chat_completions(evs) == [status_code |-> 200, body |-> complete_chat(evs)]

ChatCompletions ==
    /\ unit_pc = "chat_completions"
    /\ unit_pc' = "returned"
    /\ response_data' = chat_completions(chat_events)
    /\ UNCHANGED <<google_data, sse, chat_events, chat_request, sent,
                   credentials_file>>
    /\ UNCHANGED <<gatewayVars, parserVars, coordVars>>

InitAggregate ==
    /\ GatewayIdle
    /\ ParserIdle
    /\ unit_pc = "chat_completions"
    /\ chat_events \in ChatEvents
    /\ response_data = <<>>
    /\ google_data = <<>>
    /\ sse = <<>>
    /\ chat_request = <<>>
    /\ sent = <<>>
    /\ credentials_file = <<>>
    /\ CoordIdle

SpecAggregate == InitAggregate /\ [][ChatCompletions]_vars


(***************************************************************************)
(* Properties of the aggregate entry point, under SpecAggregate.           *)
(***************************************************************************)
\* C12: when stream_chat ended with an error event, the aggregate entry
\* point reports an error to its caller: it does not answer with status 200
\* and a chat.completion object.
C12_ErrorsSurfaced ==
    (unit_pc = "returned" /\ Last(chat_events).kind = "error") =>
        ~(/\ response_data.status_code = 200
          /\ response_data.body.object = "chat.completion")

\* The concatenation, in order, of the deltas of the events that have key.
RECURSIVE Concatenated(_, _)
Concatenated(evs, key) ==
    IF evs = <<>> THEN <<>>
    ELSE (IF key \in DOMAIN Head(evs).delta THEN Head(evs).delta[key] ELSE <<>>)
         \o Concatenated(Tail(evs), key)

\* C17: the response of complete_chat holds the in-order concatenation of
\* the content deltas of the events; when there are reasoning deltas their
\* concatenation precedes it under the two headings; the content is a single
\* space when it would be empty; and finish_reason is that of the last event
\* that carries one, "stop" when none does.
C17_AggregatesDeltas ==
    unit_pc = "returned" =>
        LET content == Concatenated(chat_events, "content")
            reasoning == Concatenated(chat_events, "reasoning_content")
            finishing == {i \in DOMAIN chat_events :
                            chat_events[i].finish_reason # Absent}
            response == response_data.body
        IN  /\ response.object = "chat.completion"
            /\ response.content =
                  (IF reasoning # <<>>
                   THEN <<"**Reasoning:**\n">> \o reasoning
                        \o <<"\n\n**Response:**\n">> \o content
                   ELSE IF content = <<>> THEN <<" ">> ELSE content)
            /\ response.finish_reason =
                  (IF finishing = {} THEN "stop"
                   ELSE chat_events[CHOOSE i \in finishing :
                            \A j \in finishing : j <= i].finish_reason)

\* C17's case: two content deltas and two different finish reasons arrived;
\* the response holds both deltas in order and the later reason.
C17_Witness ==
    /\ unit_pc = "returned"
    /\ Len(chat_events) = 4
    /\ chat_events[1].finish_reason = "stop"
    /\ chat_events[1].delta = [k \in {"content"} |-> <<"guidance">>]
    /\ chat_events[2].delta = [k \in {"content"} |-> <<"a">>]
    /\ chat_events[3].finish_reason = "max_tokens"
    /\ chat_events[4] = Done
    /\ response_data.body.content = <<"guidance", "a">>
    /\ response_data.body.finish_reason = "max_tokens"


(***************************************************************************)
(* The request builder: one pass of stream_chat's retry loop from reading  *)
(* the credential to client.stream(...), lines 298-550.  A dict is a       *)
(* function on its keys.  A model name is the sequence of its base name    *)
(* and its suffixes, so that endswith looks at the last element and the    *)
(* slice [:-n] drops it.  The credential's body is a text; JsonText(v) is  *)
(* the text that json.loads turns into v and NotJson a text it rejects.    *)
(* The headers of the credential are a dict held by reference: a write     *)
(* through a name bound to it changes the stored dict, a write to a copy   *)
(* does not.  Of the caller's parameters only model and max_tokens are     *)
(* followed; the messages become the constant contents.                    *)
(***************************************************************************)
MaxSuffixes == 2

EmptyDict == [k \in {} |-> Absent]

put(d, key, value) ==
    [k \in DOMAIN d \cup {key} |-> IF k = key THEN value ELSE d[k]]

pop(d, key) == [k \in DOMAIN d \ {key} |-> d[k]]

JsonText(value) == [json |-> TRUE, value |-> value]

NotJson == [json |-> FALSE, value |-> EmptyDict]

\* Lines 362-371: models.json is no part of src/; without the file the
\* alias map is empty.
model_map == [m \in {} |-> <<>>]

endswith(name, suffix) == name # <<>> /\ name[Len(name)] = suffix

\* Lines 371-396.
resolve_model(model) ==
    LET target == IF model \in DOMAIN model_map THEN model_map[model] ELSE model
        thinking_mode ==
            IF endswith(target, "-low") THEN "low"
            ELSE IF endswith(target, "-high") THEN "high"
            ELSE Absent
        unsuffixed ==
            IF thinking_mode # Absent
            THEN SubSeq(target, 1, Len(target) - 1) ELSE target
        resolution_mode ==
            IF endswith(unsuffixed, "-1k") THEN "1k"
            ELSE IF endswith(unsuffixed, "-2k") THEN "2k"
            ELSE IF endswith(unsuffixed, "-4k") THEN "4k"
            ELSE Absent
    IN  [target_model |-> IF resolution_mode # Absent
                          THEN SubSeq(unsuffixed, 1, Len(unsuffixed) - 1)
                          ELSE unsuffixed,
         thinking_mode |-> thinking_mode,
         resolution_mode |-> resolution_mode]

thinkingConfig(budget) ==
    [includeThoughts |-> TRUE, budget_token_count |-> budget,
     thinkingBudget |-> budget]

\* Lines 430-460.
imageConfig(gen_config, resolution_mode) ==
    LET given == IF "imageConfig" \in DOMAIN gen_config
                 THEN gen_config["imageConfig"] ELSE EmptyDict
        sized == put(put(given, "imageSize",
                         CASE resolution_mode = "1k" -> "1K"
                           [] resolution_mode = "2k" -> "2K"
                           [] resolution_mode = "4k" -> "4K"),
                     "personGeneration", "ALLOW_ALL")
        typed == IF "imageOutputOptions" \in DOMAIN sized THEN sized
                 ELSE put(sized, "imageOutputOptions", "image/png")
    IN  IF "aspectRatio" \in DOMAIN typed THEN typed
        ELSE put(typed, "aspectRatio", "1:1")

\* The generationConfig without the cleanup of lines 465-475.
generation_configNoCleanup(gen_config, mode, kwargs) ==
    LET thinking ==
            IF mode.thinking_mode # Absent
            THEN put(gen_config, "thinkingConfig",
                     thinkingConfig(IF mode.thinking_mode = "low"
                                    THEN 8192 ELSE 32768))
            ELSE IF /\ \E i \in DOMAIN mode.target_model :
                          mode.target_model[i] = "gemini-3-pro"
                    /\ "max_tokens" \in DOMAIN kwargs
            THEN put(gen_config, "thinkingConfig",
                     thinkingConfig(kwargs["max_tokens"]))
            ELSE gen_config
        imaging ==
            IF mode.resolution_mode # Absent
            THEN put(IF "responseModalities" \in DOMAIN thinking THEN thinking
                     ELSE put(thinking, "responseModalities", <<"TEXT", "IMAGE">>),
                     "imageConfig", imageConfig(thinking, mode.resolution_mode))
            ELSE thinking
        floored ==
            IF "maxOutputTokens" \in DOMAIN imaging
            THEN IF imaging["maxOutputTokens"] < 8192
                 THEN put(imaging, "maxOutputTokens", 65535)
                 ELSE imaging
            ELSE put(imaging, "maxOutputTokens", 65535)
    IN  IF "max_tokens" \in DOMAIN kwargs
        THEN put(floored, "maxOutputTokens", kwargs["max_tokens"])
        ELSE floored

\* Lines 398-514: the generationConfig of the request, from that of the
\* template.
generation_config(gen_config, mode, kwargs) ==
    LET thinking ==
            IF mode.thinking_mode # Absent
            THEN put(gen_config, "thinkingConfig",
                     thinkingConfig(IF mode.thinking_mode = "low"
                                    THEN 8192 ELSE 32768))
            ELSE IF /\ \E i \in DOMAIN mode.target_model :
                          mode.target_model[i] = "gemini-3-pro"
                    /\ "max_tokens" \in DOMAIN kwargs
            THEN put(gen_config, "thinkingConfig",
                     thinkingConfig(kwargs["max_tokens"]))
            ELSE gen_config
        imaging ==
            IF mode.resolution_mode # Absent
            THEN put(IF "responseModalities" \in DOMAIN thinking THEN thinking
                     ELSE put(thinking, "responseModalities", <<"TEXT", "IMAGE">>),
                     "imageConfig", imageConfig(thinking, mode.resolution_mode))
            ELSE thinking
        unthought ==
            IF mode.thinking_mode = Absent
            THEN pop(pop(imaging, "thinkingConfig"), "thinking_config")
            ELSE imaging
        cleaned ==
            IF mode.resolution_mode = Absent
            THEN pop(pop(pop(pop(unthought, "imageConfig"), "sampleImageSize"),
                         "width"), "height")
            ELSE unthought
        floored ==
            IF "maxOutputTokens" \in DOMAIN cleaned
            THEN IF cleaned["maxOutputTokens"] < 8192
                 THEN put(cleaned, "maxOutputTokens", 65535)
                 ELSE cleaned
            ELSE put(cleaned, "maxOutputTokens", 65535)
    IN  IF "max_tokens" \in DOMAIN kwargs
        THEN put(floored, "maxOutputTokens", kwargs["max_tokens"])
        ELSE floored

\* Lines 536-546, on the dict that headers is bound to.
request_headers(headers) ==
    pop(pop(pop(pop(pop(pop(pop(put(headers, "content-type", "application/json"),
        "content-length"), "Content-Length"), "host"), "Host"),
        "connection"), "Connection"), "accept-encoding")

prepare_headersNoCopy(creds) ==
    [stored |-> request_headers(creds.headers),
     headers |-> request_headers(creds.headers)]

\* Line 534: headers is bound to a copy, the stored dict stays as it is.
prepare_headers(creds) ==
    [stored |-> creds.headers, headers |-> request_headers(creds.headers)]

\* Lines 298-550.  The result holds the credential as it is stored after
\* the pass, and the request, or that json.loads raised.
build_request(creds, model, kwargs) ==
    IF ~creds.body.json
    THEN [raised |-> TRUE, stored |-> creds, request |-> <<>>]
    ELSE LET original_body == creds.body.value
             variables == IF "variables" \in DOMAIN original_body
                          THEN original_body["variables"] ELSE EmptyDict
             mode == resolve_model(model)
             gen_config == IF "generationConfig" \in DOMAIN variables
                           THEN variables["generationConfig"] ELSE EmptyDict
             new_variables ==
                 put(put(put(put(variables, "contents", "chat_history"),
                             "safetySettings", "BLOCK_NONE"),
                         "model", mode.target_model),
                     "generationConfig",
                     generation_config(gen_config, mode, kwargs))
             prepared == prepare_headers(creds)
         IN  [raised |-> FALSE,
              stored |-> [creds EXCEPT !.headers = prepared.stored],
              request |->
                 [url |-> creds.url, headers |-> prepared.headers,
                  json |-> [operationName |-> original_body["operationName"],
                            variables |-> new_variables]]]

(***************************************************************************)
(* The credentials and the calls the builder is applied to.                *)
(***************************************************************************)
ModelNames ==
    {<<base>> \o suffixes :
        base \in {"gemini-3-pro", "gemini-2.5-flash"},
        suffixes \in UNION {[1..n -> {"-low", "-high", "-1k", "-2k", "-4k"}] :
                               n \in 0..MaxSuffixes}}

Kwargs ==
    {EmptyDict} \cup {[k \in {"max_tokens"} |-> n] : n \in {100, 8192, 70000}}

\* The harvested credentials: the headers with and without the entries the
\* builder replaces, and a body whose variables hold a generationConfig, of
\* any of the three entries the builder looks at, or none.
Credentials ==
    LET GenConfigs ==
            {[k \in keys |->
                CASE k = "maxOutputTokens" -> n
                  [] k = "thinkingConfig" -> thinkingConfig(1024)
                  [] k = "imageConfig" -> ratio] :
                keys \in SUBSET {"maxOutputTokens", "thinkingConfig",
                                 "imageConfig"},
                n \in {100, 8191, 8192, 65535},
                ratio \in {EmptyDict, [k \in {"aspectRatio"} |-> "16:9"]}}
        Variables ==
            {[k \in {"context"} |-> "harvested"]}
            \cup {[k \in {"context", "generationConfig"} |->
                     IF k = "context" THEN "harvested" ELSE g] :
                  g \in GenConfigs}
        Headers ==
            {[k \in {"cookie", "X-Goog-First-Party-Reauth"} |-> "harvested"],
             [k \in {"cookie", "X-Goog-First-Party-Reauth", "content-type",
                     "content-length", "Content-Length", "host", "Host",
                     "connection", "Connection", "accept-encoding"} |->
                 "harvested"]}
    IN  {[url |-> "url", headers |-> h,
          body |-> JsonText([k \in {"operationName", "variables"} |->
                               IF k = "operationName"
                               THEN "StreamGenerateContent" ELSE v])] :
            h \in Headers, v \in Variables}

\* stream_chat is called and runs its first pass of the retry loop.
FirstAttempt ==
    /\ unit_pc = "stream_chat"
    /\ \E model \in ModelNames, kwargs \in Kwargs :
          LET built == build_request(latest_harvest, model, kwargs)
          IN  /\ chat_request' = [model |-> model, kwargs |-> kwargs]
              /\ latest_harvest' = built.stored
              /\ sent' = built.request
    /\ unit_pc' = "attempt 0"
    /\ UNCHANGED <<google_data, sse, chat_events, response_data,
                   credentials_file>>
    /\ UNCHANGED <<last_updated, callVars, parserVars, coordVars>>

\* The attempt failed and the refresh succeeded: lines 574-582 (or 670-678)
\* bind headers to a copy again, and "continue" runs the pass again.
Retry ==
    /\ unit_pc = "attempt 0"
    /\ LET new_creds == [latest_harvest EXCEPT
                            !.headers = prepare_headers(latest_harvest).stored]
           built == build_request(new_creds, chat_request.model,
                                  chat_request.kwargs)
       IN  /\ latest_harvest' = built.stored
           /\ sent' = built.request
    /\ unit_pc' = "attempt 1"
    /\ UNCHANGED <<chat_request, google_data, sse, chat_events, response_data,
                   credentials_file>>
    /\ UNCHANGED <<last_updated, callVars, parserVars, coordVars>>

InitBuilder ==
    /\ CallsIdle
    /\ ParserIdle
    /\ google_data = <<>>
    /\ sse = <<>>
    /\ chat_events = <<>>
    /\ response_data = <<>>
    /\ latest_harvest \in Credentials
    /\ last_updated = 0
    /\ unit_pc = "stream_chat"
    /\ chat_request = <<>>
    /\ sent = <<>>
    /\ credentials_file = <<>>
    /\ CoordIdle

NextBuilder == FirstAttempt \/ Retry

SpecBuilder == InitBuilder /\ [][NextBuilder]_vars


(***************************************************************************)
(* Properties of the request builder, under SpecBuilder.                   *)
(***************************************************************************)
Sent == unit_pc \in {"attempt 0", "attempt 1"}

\* C14: the request for model gemini-3-pro-high-4k names the model
\* gemini-3-pro and carries a thinkingConfig of budget 32768 and an
\* imageConfig of imageSize 4K, with aspectRatio 1:1 when the template
\* gives none.
C14_HighFourK ==
    (Sent /\ chat_request.model = <<"gemini-3-pro", "-high", "-4k">>) =>
        LET variables == sent.json.variables
            gen_config == variables["generationConfig"]
            template == latest_harvest.body.value["variables"]
        IN  /\ variables["model"] = <<"gemini-3-pro">>
            /\ "thinkingConfig" \in DOMAIN gen_config
            /\ gen_config["thinkingConfig"].thinkingBudget = 32768
            /\ "imageConfig" \in DOMAIN gen_config
            /\ gen_config["imageConfig"]["imageSize"] = "4K"
            /\ ("generationConfig" \notin DOMAIN template
                \/ "imageConfig" \notin DOMAIN template["generationConfig"]
                \/ "aspectRatio" \notin
                       DOMAIN template["generationConfig"]["imageConfig"]) =>
                   gen_config["imageConfig"]["aspectRatio"] = "1:1"

\* C15: the maxOutputTokens of every request is at least 8192, whatever
\* the template holds and whatever max_tokens the caller gave, and it is
\* 65535 when the template holds none or one below 8192 and the caller
\* gave none.
C15_MaxOutputTokensFloor ==
    Sent =>
        LET gen_config == sent.json.variables["generationConfig"]
            template == latest_harvest.body.value["variables"]
            harvested_high ==
                /\ "generationConfig" \in DOMAIN template
                /\ "maxOutputTokens" \in DOMAIN template["generationConfig"]
                /\ template["generationConfig"]["maxOutputTokens"] >= 8192
        IN  /\ "maxOutputTokens" \in DOMAIN gen_config
            /\ gen_config["maxOutputTokens"] >= 8192
            /\ (~harvested_high /\ "max_tokens" \notin DOMAIN chat_request.kwargs)
                   => gen_config["maxOutputTokens"] = 65535

\* C16: no pass of the retry loop changes the stored credential; the
\* headers of the request have content-type application/json, lack
\* content-length, host, connection and accept-encoding, and are the stored
\* headers otherwise, while the stored dict keeps every entry it had.
C16_CredentialNotMutated ==
    /\ [][latest_harvest' = latest_harvest]_vars
    /\ [](Sent =>
            /\ sent.url = latest_harvest.url
            /\ sent.headers["content-type"] = "application/json"
            /\ DOMAIN sent.headers =
                  (DOMAIN latest_harvest.headers \cup {"content-type"})
                  \ {"content-length", "Content-Length", "host", "Host",
                     "connection", "Connection", "accept-encoding"}
            /\ \A k \in DOMAIN sent.headers \ {"content-type"} :
                  sent.headers[k] = latest_harvest.headers[k])

\* C16's case: the stored headers hold a content-type of their own and a
\* content-length; the request was built twice, without them, and the
\* stored headers still hold them.
C16_Witness ==
    /\ unit_pc = "attempt 1"
    /\ "content-length" \in DOMAIN latest_harvest.headers
    /\ latest_harvest.headers["content-type"] = "harvested"
    /\ "content-length" \notin DOMAIN sent.headers
    /\ sent.headers["content-type"] = "application/json"


(***************************************************************************)
(* The credential store with its file: CredentialManager.load_from_disk,   *)
(* save_to_disk, update and update_token (lines 86-132), driven by the     *)
(* messages of websocket_endpoint (lines 980-986), which hands over        *)
(* data.get("data") as it came.  update and update_token have no await,    *)
(* so each is one step; writing the file can fail, and save_to_disk only   *)
(* prints that.  The clock is the number of updates so far.  The process   *)
(* starts without a file or with the file of a well-formed credential.     *)
(***************************************************************************)
MaxStores == 2

\* credentials.json: absent, or the object save_to_disk wrote.
NoFile == [exists |-> FALSE, harvest |-> NoHarvest, timestamp |-> 0]

\* Lines 86-96.
load_from_disk(file) ==
    IF file.exists
    THEN [latest_harvest |-> file.harvest, last_updated |-> file.timestamp]
    ELSE [latest_harvest |-> NoHarvest, last_updated |-> 0]

\* Lines 99-108: written tells whether open() and json.dump() went through.
save_to_disk(file, harvest, timestamp, written) ==
    IF written
    THEN [exists |-> TRUE, harvest |-> harvest, timestamp |-> timestamp]
    ELSE file

\* What a harvester may send as the data of credentials_harvested: nothing
\* (None), a captured request, one whose body is no JSON, and one whose
\* body is a JSON object without variables.
Payloads ==
    LET captured(body) ==
            [url |-> "url",
             headers |-> [k \in {"cookie", "X-Goog-First-Party-Reauth"} |->
                            "harvested"],
             body |-> body]
    IN  {NoHarvest,
         captured(JsonText([k \in {"operationName", "variables"} |->
                              IF k = "operationName"
                              THEN "StreamGenerateContent"
                              ELSE [v \in {"context"} |-> "harvested"]])),
         captured(NotJson),
         captured(JsonText([k \in {"operationName"} |->
                              "StreamGenerateContent"]))}

\* websocket_endpoint, credentials_harvested: CredentialManager.update.
CredentialsHarvested(payload, written) ==
    /\ last_updated < MaxStores
    /\ latest_harvest' = payload
    /\ last_updated' = last_updated + 1
    /\ credentials_file' =
          save_to_disk(credentials_file, payload, last_updated + 1, written)
    /\ refresh_event' = TRUE
    /\ unit_pc' = "updated"
    /\ UNCHANGED sent

\* update_token without the test of line 118: a credential is made of the
\* header when none is stored.
token_updateNoGuard(harvest, token) ==
    [taken |-> TRUE,
     harvest |->
        IF harvest # NoHarvest /\ "headers" \in DOMAIN harvest
        THEN [harvest EXCEPT
                 !.headers = put(@, "X-Goog-First-Party-Reauth",
                                 JsonText(<<token>>))]
        ELSE [headers |-> put(EmptyDict, "X-Goog-First-Party-Reauth",
                              JsonText(<<token>>))]]

\* Lines 118-126: whether update_token takes its branch, and the credential
\* after it; the header becomes json.dumps([token]).
token_update(harvest, token) ==
    IF harvest # NoHarvest /\ "headers" \in DOMAIN harvest
    THEN [taken |-> TRUE,
          harvest |-> [harvest EXCEPT
                          !.headers = put(@, "X-Goog-First-Party-Reauth",
                                          JsonText(<<token>>))]]
    ELSE [taken |-> FALSE, harvest |-> harvest]

\* websocket_endpoint, token_refreshed: CredentialManager.update_token.
TokenRefreshed(token, written) ==
    /\ last_updated < MaxStores
    /\ LET r == token_update(latest_harvest, token)
       IN  IF r.taken
           THEN /\ latest_harvest' = r.harvest
                /\ last_updated' = last_updated + 1
                /\ credentials_file' =
                      save_to_disk(credentials_file, r.harvest,
                                   last_updated + 1, written)
                /\ refresh_event' = TRUE
           ELSE UNCHANGED <<latest_harvest, last_updated, credentials_file,
                            refresh_event>>
    /\ unit_pc' = "update_token"
    /\ UNCHANGED sent

\* stream_chat builds its request from the stored credential (lines
\* 298-550); sent is the outcome.
BuildFromStore ==
    /\ latest_harvest # NoHarvest
    /\ sent' = build_request(latest_harvest, <<"gemini-3-pro">>, EmptyDict)
    /\ unit_pc' = "built"
    /\ UNCHANGED <<latest_harvest, last_updated, refresh_event, credentials_file>>

\* The variables no step of the store touches.
storeFrame ==
    <<stale, refresh_complete_event, lock_holder, lock_waiters, woken,
      harvester_clients, harvester_running, harvest_tasks, pc, attempt,
      timeout, req_cred, content_yielded, deltas, events, requests,
      pre_bcasts, fail_bcasts, failures, queued_behind, parserVars,
      google_data, sse, chat_events, response_data, chat_request,
      coordVars>>

InitStore ==
    /\ CallsIdle
    /\ ParserIdle
    /\ google_data = <<>>
    /\ sse = <<>>
    /\ chat_events = <<>>
    /\ response_data = <<>>
    /\ chat_request = <<>>
    /\ sent = <<>>
    /\ CoordIdle
    /\ unit_pc = "loaded"
    /\ credentials_file \in
          {NoFile} \cup {save_to_disk(NoFile, payload, 0, TRUE) :
                            payload \in {p \in Payloads :
                                            /\ p # NoHarvest
                                            /\ p.body.json
                                            /\ "variables" \in
                                                   DOMAIN p.body.value}}
    /\ latest_harvest = load_from_disk(credentials_file).latest_harvest
    /\ last_updated = load_from_disk(credentials_file).last_updated

NextStore ==
    \/ /\ \E payload \in Payloads, written \in BOOLEAN :
             CredentialsHarvested(payload, written)
       /\ UNCHANGED storeFrame
    \/ /\ \E token \in {"token"}, written \in BOOLEAN :
             TokenRefreshed(token, written)
       /\ UNCHANGED storeFrame
    \/ BuildFromStore /\ UNCHANGED storeFrame

SpecStore == InitStore /\ [][NextStore]_vars


(***************************************************************************)
(* Properties of the credential store, under SpecStore.                    *)
(***************************************************************************)
\* C18: every step of update or update_token ends with the credential it
\* stored written to credentials.json, and with the available signal set.
C18_PersistedBeforeSignal ==
    [][last_updated' # last_updated =>
          /\ refresh_event'
          /\ credentials_file' =
                [exists |-> TRUE, harvest |-> latest_harvest',
                 timestamp |-> last_updated']]_vars

\* C19: whenever a credential is stored, its body parses as JSON and holds
\* a variables object, and building a request from it does not fail.
C19_StoredBodyWellFormed ==
    /\ latest_harvest # NoHarvest =>
          /\ latest_harvest.body.json
          /\ "variables" \in DOMAIN latest_harvest.body.value
    /\ unit_pc = "built" => ~sent.raised


(***************************************************************************)
(* Properties of the failure-triggered refresh, under Spec.                *)
(***************************************************************************)
\* C21: a first attempt answered 400, 401 or 403 runs the full refresh
\* sequence: its wait for the credential has a timeout of 60 seconds, and
\* when that wait returns True the call goes on to wait for the UI-settled
\* signal, so that the retry is issued only after both waits succeeded.
C21_StatusRetryFullSequence ==
    /\ [](\A c \in Calls : pc[c] = "r401_wait" => timeout[c] = 60)
    /\ [][\A c \in Calls :
            (pc[c] = "r401_wait" /\ c \in woken /\ pc'[c] # "r401_wait") =>
                pc'[c] \in UiWaitPcs]_vars

\* The step ends call c without a new request and with one more event, the
\* call's only error event, of the given type.
EndsWithError(c, type) ==
    /\ pc'[c] = "done"
    /\ requests'[c] = requests[c]
    /\ events'[c] = Append(events[c], Event("error", type, attempt[c]))
    /\ ErrorEvents(c) = {}

\* C22: after an in-band AuthError on the first attempt the call waits for
\* the credential and, when that wait returned True, for the UI-settled
\* signal; the retried request is issued only from the delay that follows a
\* UI-settled wait that returned True; when either wait times out the call
\* ends without a retry and with a single authentication_error event.
C22_AuthRetryAfterBothWaits ==
    [][\A c \in Calls :
          /\ (pc[c] = "auth_wait" /\ pc'[c] # "auth_wait") =>
                 IF c \in woken
                 THEN /\ pc'[c] = "auth_ui_wait"
                      /\ requests'[c] = requests[c]
                      /\ events'[c] = events[c]
                 ELSE EndsWithError(c, "authentication_error")
          /\ (pc[c] = "auth_ui_wait" /\ pc'[c] # "auth_ui_wait") =>
                 IF refresh_complete_event \/ c \in woken
                 THEN /\ pc'[c] = "auth_sleep"
                      /\ requests'[c] = requests[c]
                      /\ events'[c] = events[c]
                 ELSE EndsWithError(c, "authentication_error")
          /\ (pc[c] # "auth_sleep" /\ pc'[c] = "auth_sleep") =>
                 pc[c] = "auth_ui_wait"
          /\ (failures[c] = <<AuthErrorFailure>>
                  /\ requests'[c] # requests[c]) =>
                 /\ pc[c] = "auth_sleep"
                 /\ requests'[c] = 2
                 /\ pc'[c] = "await_response"]_vars

\* C22's case: a call whose first attempt failed with an in-band AuthError
\* has gone through both waits and has issued its retry.
C22_Witness ==
    \E c \in Calls :
        /\ failures[c] = <<AuthErrorFailure>>
        /\ requests[c] = 2
        /\ pc[c] = "await_response"

\* C23: a failure that is no authentication failure is not retried.  The
\* step in which an attempt fails with a transport or other exception, or
\* with an upstream status for which no refresh is started, ends the call
\* with an error event, its only one, and without a further upstream
\* request.
C23_OtherFailuresNotRetried ==
    [][\A c \in Calls :
          Len(failures'[c]) = Len(failures[c]) + 1 =>
              /\ Last(failures'[c]) = ExceptionFailure =>
                     EndsWithError(c, "request_error")
              /\ (/\ Last(failures'[c]) = StatusFailure
                  /\ fail_bcasts'[c] = fail_bcasts[c]) =>
                     EndsWithError(c, "upstream_error")]_vars


(***************************************************************************)
(* CredentialManager.wait_for_refresh on its own (lines 134-145), called   *)
(* by several tasks while a harvester delivers credentials.  The wait is   *)
(* "await asyncio.wait_for(self.refresh_event.wait(), timeout)": up to     *)
(* Python 3.11 wait_for wraps the coroutine refresh_event.wait() in a      *)
(* task of its own, which reads the event's flag when the event loop runs  *)
(* it, after whatever was ready before it; from Python 3.12 on the         *)
(* coroutine runs at once, which is the schedule where EventWaitStarts     *)
(* follows WaitForRefresh immediately.                                     *)
(***************************************************************************)
MaxSignals == 2

\* Lines 136-140: both events are cleared and the wait is scheduled.
WaitForRefresh(c) ==
    /\ pc[c] \in {"idle", "returned True", "returned False"}
    /\ refresh_event' = FALSE
    /\ refresh_complete_event' = FALSE
    /\ signalled' = signalled \ {c}
    /\ woken' = woken \ {c}
    /\ pc' = [pc EXCEPT ![c] = "wait_scheduled"]
    /\ UNCHANGED last_updated

\* asyncio.Event.wait(): True at once when the flag is set, and otherwise a
\* future is queued on the event.
EventWaitStarts(c) ==
    /\ pc[c] = "wait_scheduled"
    /\ woken' = IF refresh_event THEN woken \cup {c} ELSE woken
    /\ pc' = [pc EXCEPT ![c] = "waiting"]
    /\ UNCHANGED <<refresh_event, refresh_complete_event, signalled,
                   last_updated>>

\* Lines 110-115 and 117-132: update, or update_token on a stored
\* credential, ends with refresh_event.set(), which resolves the futures
\* queued on the event.
CredentialDelivered ==
    /\ last_updated < MaxSignals
    /\ last_updated' = last_updated + 1
    /\ refresh_event' = TRUE
    /\ woken' = woken \cup {c \in Calls : pc[c] = "waiting"}
    /\ signalled' =
          signalled \cup {c \in Calls : pc[c] \in {"wait_scheduled", "waiting"}}
    /\ UNCHANGED <<refresh_complete_event, pc>>

\* Line 141: the wait is over, wait_for_refresh returns True.
WaitForRefreshReturns(c) ==
    /\ pc[c] = "waiting"
    /\ c \in woken
    /\ woken' = woken \ {c}
    /\ pc' = [pc EXCEPT ![c] = "returned True"]
    /\ UNCHANGED <<refresh_event, refresh_complete_event, signalled,
                   last_updated>>

\* Lines 142-145: asyncio.TimeoutError, wait_for_refresh returns False.
WaitForRefreshTimesOut(c) ==
    /\ pc[c] = "waiting"
    /\ c \notin woken
    /\ refresh_complete_event' = TRUE
    /\ pc' = [pc EXCEPT ![c] = "returned False"]
    /\ UNCHANGED <<refresh_event, signalled, woken, last_updated>>

\* The variables no step of the wait touches.
waitFrame ==
    <<latest_harvest, stale, lock_holder, lock_waiters, harvester_clients,
      harvester_running, harvest_tasks, attempt, timeout, req_cred,
      content_yielded, deltas, events, requests, pre_bcasts, fail_bcasts,
      failures, queued_behind, parserVars, unit_pc, google_data, sse,
      chat_events, response_data, chat_request, sent, credentials_file,
      broadcast_queue, registered, refresh_sent, answered>>

InitWait ==
    /\ GatewayIdle
    /\ ParserIdle
    /\ UnitsIdle

NextWait ==
    \/ \E c \in Calls : WaitForRefresh(c) /\ UNCHANGED waitFrame
    \/ \E c \in Calls : EventWaitStarts(c) /\ UNCHANGED waitFrame
    \/ CredentialDelivered /\ UNCHANGED waitFrame
    \/ \E c \in Calls : WaitForRefreshReturns(c) /\ UNCHANGED waitFrame
    \/ \E c \in Calls : WaitForRefreshTimesOut(c) /\ UNCHANGED waitFrame

SpecWait == InitWait /\ [][NextWait]_vars

(***************************************************************************)
(* Properties of wait_for_refresh, under SpecWait.                         *)
(***************************************************************************)
\* C24: wait_for_refresh clears the available signal, and it returns True
\* if and only if update or update_token set that signal after the
\* clearing and before the wait ended; otherwise it returns False.
C24_TrueIffSignalled ==
    /\ [](\A c \in Calls :
            /\ pc[c] = "returned True" => c \in signalled
            /\ pc[c] = "returned False" => c \notin signalled)
    /\ [][\A c \in Calls :
            (pc'[c] = "wait_scheduled" /\ pc[c] # "wait_scheduled") =>
                ~refresh_event']_vars


(***************************************************************************)
(* Properties of the UI-settled signal, under Spec.                        *)
(***************************************************************************)
\* Between the clearing of the signals by wait_for_refresh and the end of
\* wait_for_refresh_complete, after an in-band AuthError.
AuthRefreshPcs == {"auth_wait", "auth_ui_wait"}

\* C25: wait_for_refresh_complete returns True only when the UI-settled
\* signal is set, and while a call is between its clearing of that signal
\* and the end of its wait for it, the signal is set by nothing but a
\* refresh_complete message of a harvester: by no step of another call.
C25_UiSettledOnlyByHarvester ==
    [][\A c \in Calls :
          /\ (pc[c] = "auth_ui_wait" /\ pc'[c] = "auth_sleep") =>
                 refresh_complete_event \/ c \in woken
          /\ (/\ pc[c] \in AuthRefreshPcs
              /\ pc'[c] \in AuthRefreshPcs
              /\ ~refresh_complete_event
              /\ refresh_complete_event') =>
                 pc' = pc]_vars


(***************************************************************************)
(* Properties of the pre-flight check, under Spec.                         *)
(***************************************************************************)
\* Before the call is past the first check and the refresh lock.
BeforeLockPcs == {"idle", "lock_wait"}

\* The pre-flight refresh, from its broadcast to the end of its delay.
PreflightPcs == {"pre_clear", "pre_wait", "pre_sleep"}

\* C26: a call issues a pre-flight refresh exactly in the step in which it
\* is past the first check, holds the refresh lock and finds the credential
\* absent or older than 3000 seconds; the refresh runs under the lock and
\* before the first request; a call that enters with a credential aged at
\* most 3000 seconds sends its first request in that step and touches
\* neither the lock, nor the harvesters, nor a signal; and the pre-flight
\* wait is followed by no wait for the UI-settled signal.
C26_PreflightOnlyWhenNeeded ==
    /\ [](\A c \in Calls :
            /\ pc[c] \in PreflightPcs =>
                   lock_holder = c /\ requests[c] = 0 /\ pre_bcasts[c] = 1
            /\ pc[c] \in UiWaitPcs => requests[c] >= 1)
    /\ [][\A c \in Calls :
            /\ pre_bcasts'[c] # pre_bcasts[c] <=>
                   /\ pc[c] \in BeforeLockPcs
                   /\ pc'[c] \notin BeforeLockPcs
                   /\ NeedsRefresh(S)
            /\ pre_bcasts'[c] # pre_bcasts[c] =>
                   /\ pc'[c] \in {"pre_clear", "pre_wait"}
                   /\ lock_holder' = c
                   /\ requests'[c] = 0
            /\ (pc[c] = "idle" /\ pc'[c] # "idle" /\ ~NeedsRefresh(S)) =>
                   /\ pc'[c] = "await_response"
                   /\ requests'[c] = 1
                   /\ UNCHANGED <<lock_holder, lock_waiters, pre_bcasts,
                                  refresh_event, refresh_complete_event,
                                  harvester_clients, harvest_tasks>>
            /\ (pc[c] = "pre_wait" /\ pc'[c] # "pre_wait") =>
                   pc'[c] \in {"pre_sleep", "await_response",
                               "pre_fail_guidance"}]_vars

\* C26's case: one call has sent its first request after a pre-flight
\* refresh, and another has entered with the credential that refresh
\* delivered and has sent its own without one.
C26_Witness ==
    \E c, d \in Calls :
        /\ pre_bcasts[c] = 1
        /\ requests[c] = 1
        /\ pre_bcasts[d] = 0
        /\ queued_behind[d] = NoCall
        /\ requests[d] = 1
        /\ last_updated = 1


(***************************************************************************)
(* Properties of the retried request, under Spec.                          *)
(***************************************************************************)
\* C27: the step that issues a retried request builds it from the
\* credential CredentialManager holds in that step, whatever credential
\* the failed attempt was built from.
C27_RetryReadsStoredCredential ==
    [][\A c \in Calls :
          (requests[c] >= 1 /\ requests'[c] = requests[c] + 1) =>
              /\ attempt'[c] = attempt[c] + 1
              /\ req_cred'[c] = latest_harvest
              /\ latest_harvest' = latest_harvest]_vars

\* C27's case: a first attempt built from the credential of stamp 0 was
\* answered with an error status, the refresh delivered a new credential,
\* and the retry has been issued with the new one.
C27_Witness ==
    \E c \in Calls :
        /\ failures[c] = <<StatusFailure>>
        /\ pre_bcasts[c] = 0
        /\ requests[c] = 2
        /\ pc[c] = "await_response"
        /\ last_updated = 1
        /\ req_cred[c] # Harvest(0)
        /\ req_cred[c] = latest_harvest


(***************************************************************************)
(* request_token_refresh on its own (lines 1002-1035), with WebSocket      *)
(* clients that connect and disconnect while the broadcast is suspended in *)
(* send_text.  The function branches on a running cloud harvester, so the  *)
(* harvester is an input here: main() starts one when GOOGLE_COOKIES or    *)
(* ENABLE_AUTO_HARVEST is set and cloud_harvester can be imported.         *)
(***************************************************************************)
MaxSockets == 3

Sockets == 1..MaxSockets

\* The cloud harvester, among the collaborators.
CloudHarvester == 0

\* list(harvester_clients): the clients in some order.
Orders(clients) ==
    {q \in [1..Cardinality(clients) -> clients] :
        \A i, j \in DOMAIN q : q[i] = q[j] => i = j}

\* Lines 1002-1025: up to the first send_text.
RequestTokenRefresh ==
    /\ unit_pc \in {"idle", "returned"}
    /\ registered' =
          harvester_clients \cup
              (IF harvester_running THEN {CloudHarvester} ELSE {})
    /\ IF harvester_running
       THEN /\ harvest_tasks' = TRUE
            /\ refresh_sent' = {CloudHarvester}
            /\ broadcast_queue' = <<>>
            /\ unit_pc' = "returned"
       ELSE /\ harvest_tasks' = harvest_tasks
            /\ refresh_sent' = {}
            /\ \E order \in Orders(harvester_clients) :
                  broadcast_queue' = order
            /\ unit_pc' = IF harvester_clients = {} THEN "returned"
                          ELSE "send_text"
    /\ UNCHANGED <<harvester_clients, harvester_running>>

\* Lines 1027-1035: one pass of "for ws in list(harvester_clients)";
\* raised tells whether send_text raised.
SendText(raised) ==
    /\ unit_pc = "send_text"
    /\ LET ws == Head(broadcast_queue)
       IN  /\ refresh_sent' = refresh_sent \cup {ws}
           /\ harvester_clients' =
                 IF raised THEN harvester_clients \ {ws} ELSE harvester_clients
    /\ broadcast_queue' = Tail(broadcast_queue)
    /\ unit_pc' = IF Tail(broadcast_queue) = <<>> THEN "returned"
                  ELSE "send_text"
    /\ UNCHANGED <<registered, harvester_running, harvest_tasks>>

\* websocket_endpoint, lines 974-976: a client connects.
SocketConnects(h) ==
    /\ h \notin harvester_clients
    /\ harvester_clients' = harvester_clients \cup {h}
    /\ UNCHANGED <<unit_pc, broadcast_queue, registered, refresh_sent,
                   harvester_running, harvest_tasks>>

\* websocket_endpoint, lines 994-996: WebSocketDisconnect.
SocketDisconnects(h) ==
    /\ h \in harvester_clients
    /\ harvester_clients' = harvester_clients \ {h}
    /\ UNCHANGED <<unit_pc, broadcast_queue, registered, refresh_sent,
                   harvester_running, harvest_tasks>>

\* The variables no step of the broadcast touches.
broadcastFrame ==
    <<latest_harvest, last_updated, stale, refresh_event,
      refresh_complete_event, lock_holder, lock_waiters, woken, pc, attempt,
      timeout, req_cred, content_yielded, deltas, events, requests,
      pre_bcasts, fail_bcasts, failures, queued_behind, parserVars,
      google_data, sse, chat_events, response_data, chat_request, sent,
      credentials_file, signalled, answered>>

InitBroadcast ==
    /\ latest_harvest = Harvest(0)
    /\ last_updated = 0
    /\ stale = FALSE
    /\ refresh_event = TRUE
    /\ refresh_complete_event = TRUE
    /\ lock_holder = NoCall
    /\ lock_waiters = <<>>
    /\ woken = {}
    /\ harvester_clients \in SUBSET Sockets
    /\ harvester_running \in BOOLEAN
    /\ harvest_tasks = FALSE
    /\ pc = [c \in Calls |-> "idle"]
    /\ attempt = [c \in Calls |-> 0]
    /\ timeout = [c \in Calls |-> 0]
    /\ req_cred = [c \in Calls |-> NoHarvest]
    /\ content_yielded = [c \in Calls |-> FALSE]
    /\ deltas = [c \in Calls |-> 0]
    /\ events = [c \in Calls |-> NoEvents]
    /\ requests = [c \in Calls |-> 0]
    /\ pre_bcasts = [c \in Calls |-> 0]
    /\ fail_bcasts = [c \in Calls |-> 0]
    /\ failures = [c \in Calls |-> <<>>]
    /\ queued_behind = [c \in Calls |-> NoCall]
    /\ ParserIdle
    /\ UnitsIdle

NextBroadcast ==
    \/ RequestTokenRefresh /\ UNCHANGED broadcastFrame
    \/ \E raised \in BOOLEAN : SendText(raised) /\ UNCHANGED broadcastFrame
    \/ \E h \in Sockets : SocketConnects(h) /\ UNCHANGED broadcastFrame
    \/ \E h \in Sockets : SocketDisconnects(h) /\ UNCHANGED broadcastFrame

SpecBroadcast == InitBroadcast /\ [][NextBroadcast]_vars

HoldsKeyword(msg) ==
    \E i \in DOMAIN msg :
        msg[i] \in {"Recaptcha", "Authentication", "token", "Token", "TOKEN"}

\* A result with an errors entry one of whose messages holds a keyword.
AuthFailure(result) ==
    /\ result.has_errors
    /\ \E i \in DOMAIN result.errors : HoldsKeyword(result.errors[i])

WithoutErrors(result) == ~result.has_errors

SleepPcs == {"pre_sleep", "r401_sleep", "auth_sleep"}

\* C29: a wait for the credential that returned True is followed by the
\* one-second delay, directly or, after an AuthError, through the wait for
\* the UI-settled signal, which leads to the delay or to the end of the
\* call; none of these steps issues a request, and a request is issued from
\* a wait only when the pre-flight wait timed out.  So every request that
\* follows a successful refresh is issued by the step that ends the delay.
C29_DelayAfterRefresh ==
    [][\A c \in Calls :
          /\ (pc[c] \in CredWaitPcs /\ c \in woken /\ pc'[c] # pc[c]) =>
                 /\ pc'[c] \in SleepPcs \cup UiWaitPcs
                 /\ requests'[c] = requests[c]
          /\ (pc[c] \in UiWaitPcs /\ pc'[c] # pc[c]) =>
                 /\ pc'[c] \in SleepPcs \cup {"done"}
                 /\ requests'[c] = requests[c]
          /\ (pc[c] \notin SleepPcs /\ pc'[c] \in SleepPcs) =>
                 pc[c] \in CredWaitPcs \cup UiWaitPcs
          /\ (pc[c] \in CredWaitPcs \cup UiWaitPcs
                  /\ requests'[c] # requests[c]) =>
                 pc[c] = "pre_wait" /\ c \notin woken]_vars

\* C29's case: one credential released two waiting calls; one of them is in
\* the delay after its pre-flight wait, the other has been through the
\* delay after its failure-triggered wait and has issued its retry.
C29_Witness ==
    \E c, d \in Calls :
        /\ pc[c] = "pre_sleep"
        /\ fail_bcasts[d] = 1
        /\ requests[d] = 2
        /\ pc[d] = "await_response"

(***************************************************************************)
(* Properties of the model name's suffixes, under SpecBuilder.             *)
(***************************************************************************)
ThinkingSuffixes == {"-low", "-high"}

ResolutionSuffixes == {"-1k", "-2k", "-4k"}

\* The mode that a suffix names: the suffix without its hyphen.
ModeOf(suffix) ==
    CASE suffix = "-low" -> "low"
      [] suffix = "-high" -> "high"
      [] suffix = "-1k" -> "1k"
      [] suffix = "-2k" -> "2k"
      [] suffix = "-4k" -> "4k"

\* C31: a name made of a base, a thinking suffix and a resolution suffix
\* resolves, in either order of the two suffixes, to the base with the
\* thinking mode and the resolution mode of the suffixes; the request built
\* for the name thinking-then-resolution names the base model.
C31_SuffixOrderIndependent ==
    \A t \in ThinkingSuffixes, r \in ResolutionSuffixes :
        (/\ Sent
         /\ Len(chat_request.model) = 3
         /\ chat_request.model[2] = t
         /\ chat_request.model[3] = r) =>
            LET b == chat_request.model[1]
                expected == [target_model |-> <<b>>,
                             thinking_mode |-> ModeOf(t),
                             resolution_mode |-> ModeOf(r)]
            IN  /\ resolve_model(<<b, r, t>>) = expected
                /\ resolve_model(<<b, t, r>>) = expected
                /\ sent.json.variables["model"] = <<b>>

RefreshIdlePcs == {"idle", "returned True", "returned False"}

\* Lines 1002-1029: with no client connected request_token_refresh returns
\* at once and the wait starts; otherwise the message is sent and the call
\* is suspended in send_text.
RefreshRequested(c) ==
    /\ pc[c] \in RefreshIdlePcs
    /\ answered' = answered \ {c}
    /\ IF harvester_clients = {}
       THEN /\ refresh_event' = FALSE
            /\ refresh_complete_event' = FALSE
            /\ woken' = woken \ {c}
            /\ pc' = [pc EXCEPT ![c] = "waiting"]
       ELSE /\ pc' = [pc EXCEPT ![c] = "send_text"]
            /\ UNCHANGED <<refresh_event, refresh_complete_event, woken>>
    /\ UNCHANGED <<last_updated, signalled>>

\* Lines 1029-1035 and 136-140: send_text is over, request_token_refresh
\* returns, wait_for_refresh clears both events and blocks.
WaitAfterBroadcast(c) ==
    /\ pc[c] = "send_text"
    /\ refresh_event' = FALSE
    /\ refresh_complete_event' = FALSE
    /\ woken' = woken \ {c}
    /\ pc' = [pc EXCEPT ![c] = "waiting"]
    /\ UNCHANGED <<last_updated, signalled, answered>>

\* websocket_endpoint, lines 978-983: a credentials_harvested message is
\* handed to update, whatever the calls are doing.
CredentialArrives ==
    /\ harvester_clients # {}
    /\ CredentialDelivered
    /\ answered' = answered \cup {c \in Calls : pc[c] \in {"send_text", "waiting"}}

\* The variables no step of the refresh touches.
refreshFrame ==
    <<latest_harvest, stale, lock_holder, lock_waiters, harvester_clients,
      harvester_running, harvest_tasks, attempt, timeout, req_cred,
      content_yielded, deltas, events, requests, pre_bcasts, fail_bcasts,
      failures, queued_behind, parserVars, unit_pc, google_data, sse,
      chat_events, response_data, chat_request, sent, credentials_file,
      broadcast_queue, registered, refresh_sent>>

InitRefresh ==
    /\ latest_harvest = Harvest(0)
    /\ last_updated = 0
    /\ stale = FALSE
    /\ refresh_event = TRUE
    /\ refresh_complete_event = TRUE
    /\ lock_holder = NoCall
    /\ lock_waiters = <<>>
    /\ woken = {}
    /\ harvester_clients \in SUBSET WsClients
    /\ harvester_running = FALSE
    /\ harvest_tasks = FALSE
    /\ pc = [c \in Calls |-> "idle"]
    /\ attempt = [c \in Calls |-> 0]
    /\ timeout = [c \in Calls |-> 0]
    /\ req_cred = [c \in Calls |-> NoHarvest]
    /\ content_yielded = [c \in Calls |-> FALSE]
    /\ deltas = [c \in Calls |-> 0]
    /\ events = [c \in Calls |-> NoEvents]
    /\ requests = [c \in Calls |-> 0]
    /\ pre_bcasts = [c \in Calls |-> 0]
    /\ fail_bcasts = [c \in Calls |-> 0]
    /\ failures = [c \in Calls |-> <<>>]
    /\ queued_behind = [c \in Calls |-> NoCall]
    /\ ParserIdle
    /\ UnitsIdle

NextRefresh ==
    \/ \E c \in Calls : RefreshRequested(c) /\ UNCHANGED refreshFrame
    \/ \E c \in Calls : WaitAfterBroadcast(c) /\ UNCHANGED refreshFrame
    \/ CredentialArrives /\ UNCHANGED refreshFrame
    \/ \E c \in Calls :
          WaitForRefreshReturns(c) /\ UNCHANGED <<refreshFrame, answered>>
    \/ \E c \in Calls :
          WaitForRefreshTimesOut(c) /\ UNCHANGED <<refreshFrame, answered>>

SpecRefresh == InitRefresh /\ [][NextRefresh]_vars

(***************************************************************************)
(* Properties of the refresh, under SpecRefresh.                           *)
(***************************************************************************)
\* C33: when a credential was delivered after request_token_refresh sent
\* the refresh_token message of a call, the wait_for_refresh of that call
\* does not return False.
C33_DeliveryAfterBroadcastKept ==
    \A c \in Calls : pc[c] = "returned False" => c \notin answered

(***************************************************************************)
(* Properties of the refresh lock's holder, under Spec.                    *)
(***************************************************************************)
\* Suspended at a yield: the generator waits for its caller to ask for the
\* next event.
YieldPcs == {"pre_fail_guidance", "pre_fail_done"}

\* C34: the call that holds the refresh lock is never suspended at a yield
\* of an event to its caller, so no call is queued on the lock behind a
\* call that waits for its client.
C34_NoYieldUnderLock ==
    \A c \in Calls : lock_holder = c => pc[c] \notin YieldPcs

(***************************************************************************)
(* Properties of the events of a call, under Spec.                         *)
(***************************************************************************)
\* C35: the delta events that a call has forwarded to its caller all come
\* from one attempt.
C35_DeltasOfOneAttempt ==
    \A c \in Calls :
        \A i, j \in DOMAIN events[c] :
            (events[c][i].kind = "delta" /\ events[c][j].kind = "delta") =>
                events[c][i].attempt = events[c][j].attempt

\* An error payload or the [DONE] sentinel.
TerminalKinds == {"error", "DONE"}

\* C36: in the events of a call a terminal event, an error payload or
\* [DONE], is the last one: there is at most one, and nothing follows it.
C36_TerminalEventIsLast ==
    \A c \in Calls :
        \A i \in DOMAIN events[c] :
            events[c][i].kind \in TerminalKinds => i = Len(events[c])

\* A call has ended with an error payload after a forwarded delta, and
\* another with [DONE] after the guidance message.
C36_Witness ==
    \E c, d \in Calls :
        /\ pc[c] = "done"
        /\ Len(events[c]) >= 2
        /\ Last(events[c]).kind = "error"
        /\ pc[d] = "done"
        /\ Len(events[d]) >= 2
        /\ Last(events[d]) = DoneEvent

(***************************************************************************)
(* The loop of lines 598-653 pass by pass: "async for chunk in             *)
(* response.aiter_text()" appends a chunk to the buffer, and "while        *)
(* buffer:" runs passes until the buffer is empty or a pass breaks.  The   *)
(* upstream sends the items of SpecParser and, besides, integers of more   *)
(* than 4300 digits.                                                       *)
(***************************************************************************)
\* {"text": 9...9}
HugeObjectItem ==
    [src |-> <<"{", Quote, "a", Quote, Huge, "}">>,
     value |-> <<"huge", <<>>>>, stray |-> TRUE]

\* 9...9
HugeNumberItem ==
    [src |-> <<Huge>>, value |-> <<"huge", <<>>>>, stray |-> TRUE]

LoopLayouts ==
    UNION {[1..n -> ObjectItems \cup {StrayItem, HugeObjectItem, HugeNumberItem}] :
              n \in 0..MaxItems}

\* Lines 598-600: the next chunk, of any length, is appended.
AiterText(n) ==
    /\ unit_pc = "aiter_text"
    /\ stream_open
    /\ fed + n <= Len(stream)
    /\ buffer' = buffer \o SubSeq(stream, fed + 1, fed + n)
    /\ fed' = fed + n
    /\ unit_pc' = "while"
    /\ UNCHANGED <<layout, stream, decoded, stream_open>>

\* Lines 602-653: the test of "while buffer:" and, when it holds, one pass.
WhilePass ==
    /\ unit_pc = "while"
    /\ IF buffer = <<>>
       THEN /\ unit_pc' = "aiter_text"
            /\ UNCHANGED <<buffer, decoded>>
       ELSE LET r == while_pass(buffer, decoded)
            IN  /\ buffer' = r.buffer
                /\ decoded' = r.decoded
                /\ unit_pc' = IF r.again THEN "while" ELSE "aiter_text"
    /\ UNCHANGED <<layout, stream, fed, stream_open>>

\* aiter_text() is exhausted.
AiterTextEnds ==
    /\ unit_pc = "aiter_text"
    /\ StreamCloses

\* The variables of the units other than unit_pc.
loopFrame ==
    <<google_data, sse, chat_events, response_data, chat_request, sent,
      credentials_file, coordVars>>

InitLoop ==
    /\ GatewayIdle
    /\ unit_pc = "aiter_text"
    /\ google_data = <<>>
    /\ sse = <<>>
    /\ chat_events = <<>>
    /\ response_data = <<>>
    /\ chat_request = <<>>
    /\ sent = <<>>
    /\ credentials_file = <<>>
    /\ CoordIdle
    /\ layout \in LoopLayouts
    /\ stream = Framed(layout)
    /\ fed = 0
    /\ buffer = <<>>
    /\ decoded = <<>>
    /\ stream_open = TRUE

NextLoop ==
    \/ \E n \in 1..(Len(stream) - fed) :
          AiterText(n) /\ UNCHANGED <<gatewayVars, loopFrame>>
    \/ WhilePass /\ UNCHANGED <<gatewayVars, loopFrame>>
    \/ AiterTextEnds

SpecLoop == InitLoop /\ [][NextLoop]_vars

(***************************************************************************)
(* Properties of the parse loop, under SpecLoop.                           *)
(***************************************************************************)
\* C37: every pass of "while buffer:" changes the state; it leaves the
\* buffer shorter or leaves the loop for the next chunk; and a pass that
\* decodes an object leaves the buffer shorter.
C37_EveryPassProgresses ==
    /\ [](unit_pc = "while" => ENABLED <<WhilePass>>_<<unit_pc, buffer>>)
    /\ [][unit_pc = "while" =>
             (Len(buffer') < Len(buffer) \/ unit_pc' = "aiter_text")]_vars
    /\ [][decoded' # decoded => Len(buffer') < Len(buffer)]_vars

(***************************************************************************)
(* update_token among the other users of the store: update, with what a    *)
(* harvester may send, a captured request without headers included, and    *)
(* wait_for_refresh, which clears the signals.                             *)
(***************************************************************************)
\* A captured request without the headers entry.
Headerless ==
    [url |-> "url",
     body |-> JsonText([k \in {"operationName", "variables"} |->
                          IF k = "operationName"
                          THEN "StreamGenerateContent"
                          ELSE [v \in {"context"} |-> "harvested"]])]

TokenPayloads == Payloads \cup {Headerless}

\* Lines 136-137: a call starts to wait, both events are cleared.
WaitForRefreshClears ==
    /\ refresh_event' = FALSE
    /\ refresh_complete_event' = FALSE
    /\ unit_pc' = "wait_for_refresh"
    /\ UNCHANGED <<latest_harvest, last_updated, credentials_file, sent>>

\* The variables no step of the store or of the wait touches.
tokenFrame ==
    <<stale, lock_holder, lock_waiters, woken, harvester_clients,
      harvester_running, harvest_tasks, pc, attempt, timeout, req_cred,
      content_yielded, deltas, events, requests, pre_bcasts, fail_bcasts,
      failures, queued_behind, parserVars, google_data, sse, chat_events,
      response_data, chat_request, coordVars>>

NextToken ==
    \/ /\ \E payload \in TokenPayloads, written \in BOOLEAN :
             CredentialsHarvested(payload, written)
       /\ UNCHANGED <<tokenFrame, refresh_complete_event>>
    \/ /\ \E token \in {"token", "other"}, written \in BOOLEAN :
             TokenRefreshed(token, written)
       /\ UNCHANGED <<tokenFrame, refresh_complete_event>>
    \/ WaitForRefreshClears /\ UNCHANGED tokenFrame

SpecToken == InitStore /\ [][NextToken]_vars

(***************************************************************************)
(* Properties of update_token, under SpecToken.                            *)
(***************************************************************************)
\* C38: update_token, called while no credential or one without headers is
\* stored, leaves the credential, last_updated, the file and the available
\* signal as they are; called with a stored credential it changes, of the
\* credential, the X-Goog-First-Party-Reauth header only, and last_updated.
C38_UpdateTokenFrame ==
    [][unit_pc' = "update_token" =>
          IF latest_harvest = NoHarvest \/ "headers" \notin DOMAIN latest_harvest
          THEN UNCHANGED <<latest_harvest, last_updated, credentials_file,
                           refresh_event>>
          ELSE /\ DOMAIN latest_harvest' = DOMAIN latest_harvest
               /\ \A k \in DOMAIN latest_harvest \ {"headers"} :
                     latest_harvest'[k] = latest_harvest[k]
               /\ DOMAIN latest_harvest'.headers =
                     DOMAIN latest_harvest.headers
                         \cup {"X-Goog-First-Party-Reauth"}
               /\ \A k \in DOMAIN latest_harvest.headers
                               \ {"X-Goog-First-Party-Reauth"} :
                     latest_harvest'.headers[k] = latest_harvest.headers[k]
               /\ last_updated' = last_updated + 1]_vars

\* update_token was called while a call waited and nothing was stored, on
\* disk or in memory: the signal is still cleared.
C38_Witness ==
    /\ unit_pc = "update_token"
    /\ latest_harvest = NoHarvest
    /\ credentials_file = NoFile
    /\ ~refresh_event

(***************************************************************************)
(* POST /v1/chat/completions (lines 852-904) on its own, after the API key *)
(* check.  The body is a JSON object with or without messages and stream;  *)
(* chat_events are the events stream_chat yields when it is called.        *)
(* fastapi.HTTPException is a subclass of Exception, so a "raise           *)
(* HTTPException" inside the try is caught by "except Exception".          *)
(***************************************************************************)
MaxMessages == 1

\* request.json(): messages is absent, or a list of up to MaxMessages
\* messages; stream is absent, false or true.
RequestBodies ==
    {[k \in keys |-> IF k = "messages" THEN messages ELSE streamed] :
        keys \in SUBSET {"messages", "stream"},
        messages \in UNION {[1..n -> {"user message"}] : n \in 0..MaxMessages},
        streamed \in BOOLEAN}

\* dict.get(key, default)
get(d, key, default) == IF key \in DOMAIN d THEN d[key] ELSE default

\* raise HTTPException(status_code, detail)
HTTPException(status_code, detail) ==
    [raised |-> TRUE, status_code |-> status_code, detail |-> detail,
     handler |-> "none"]

\* Lines 860-899, the body of the try: what it returns or raises, and the
\* function the messages were handed to.
chat_completions_try(body, evs) ==
    LET messages == get(body, "messages", <<>>)
        streamed == get(body, "stream", FALSE)
    IN  IF messages = <<>>
        THEN HTTPException(400, <<"No messages provided">>)
        ELSE IF streamed
        THEN [raised |-> FALSE, status_code |-> 200, detail |-> <<>>,
              handler |-> "stream_chat"]
        ELSE [raised |-> FALSE, status_code |-> chat_completions(evs).status_code,
              detail |-> <<>>, handler |-> "complete_chat"]

\* Lines 859-904: an exception of the try, of any class, is answered by
\* HTTPException(500) with the text of the exception in its detail.
chat_completions_handler(body, evs) ==
    LET r == chat_completions_try(body, evs)
    IN  IF r.raised
        THEN [HTTPException(500, <<"error">> \o r.detail)
                 EXCEPT !.handler = r.handler]
        ELSE r

\* The endpoint answers a request.
ChatCompletionsRequest ==
    /\ unit_pc = "request"
    /\ unit_pc' = "responded"
    /\ response_data' = chat_completions_handler(chat_request, chat_events)
    /\ UNCHANGED <<google_data, sse, chat_events, chat_request, sent,
                   credentials_file>>
    /\ UNCHANGED <<gatewayVars, parserVars, coordVars>>

InitEndpoint ==
    /\ GatewayIdle
    /\ ParserIdle
    /\ unit_pc = "request"
    /\ chat_request \in RequestBodies
    /\ chat_events \in ChatEvents
    /\ response_data = <<>>
    /\ google_data = <<>>
    /\ sse = <<>>
    /\ sent = <<>>
    /\ credentials_file = <<>>
    /\ CoordIdle

SpecEndpoint == InitEndpoint /\ [][ChatCompletionsRequest]_vars

(***************************************************************************)
(* Properties of the endpoint, under SpecEndpoint.                         *)
(***************************************************************************)
\* C39: a request whose messages are missing or empty is answered with
\* status 400, and its messages are handed neither to stream_chat nor to
\* complete_chat.
C39_EmptyMessagesRejected ==
    (unit_pc = "responded" /\ get(chat_request, "messages", <<>>) = <<>>) =>
        /\ response_data.status_code = 400
        /\ response_data.handler = "none"

=============================================================================
